---------------------------- MODULE Spec2Model ----------------------------
(***************************************************************************)
(* Model of openai-helper: the file selection / tokenisation pipeline of   *)
(* openai_helper/context.py and the background-task bridge of              *)
(* openai_helper/ui/main_frame.py.                                         *)
(*                                                                         *)
(* Strings are sequences of one-character strings, so that base names,     *)
(* full path strings and regular expressions are matched character by      *)
(* character.                                                              *)
(***************************************************************************)
EXTENDS Integers, Sequences, FiniteSets, TLC

VARIABLES
    \* ---- ContextProvider._file_matches on one path (SpecFilter) ----
    f_args,       \* the keyword arguments given to __init__
    f_rules,      \* the ContextProvider whose filter is evaluated
    f_path,       \* the candidate path, a sequence of path components
    f_pc,         \* "call" before _file_matches ran, "ret" after
    f_ret,        \* its return value
    f_line,       \* the source line of the return statement that was taken
    \* ---- one pass of ContextProvider.iter_file_paths (SpecPaths) ----
    p_tree,       \* directory -> its entries, as Path.iterdir lists them
    p_self,       \* the ContextProvider that scans
    p_pc,         \* "call", "run" or "done" (the generator is exhausted)
    p_stack,      \* the generator frames: directory and index of the entry
    p_out,        \* the paths yielded so far, in order
    p_entered,    \* the directories whose entries were iterated
    \* ---- one pass of ContextProvider.iter_files (SpecCollect) ----
    c_fs,         \* file path -> content of the file on disk
    c_self,       \* the ContextProvider that scans
    c_consumer,   \* who iterates iter_files
    c_pc,         \* "start", "iter", "done" (StopIteration) or "raised"
    c_todo,       \* the paths iter_file_paths has still to hand over
    c_out,        \* the records yielded so far, in order
    c_last,       \* what happened to the path handled last
    c_ret,        \* what the consumer returned or put in its queue
    \* ---- the user interface and its background tasks (Spec) ----
    settings,       \* the tk variables of the frames: the live settings
    edits,          \* how often the user changed a setting
    tasks,          \* the threads started so far, with their result queues
    openai_api_key, \* the module attribute openai.api_key
    u_progress,     \* MainFrame._progress: 0 for None, else the dialog
    u_dialogs,      \* the ProgressDialog windows that are open
    u_filelist,     \* the rows of MainFrame.filelist
    u_total_tokens, \* OptionsFrame.total_tokens
    u_models,       \* the values of the models combobox
    u_messages,     \* the messagebox.showerror calls made so far
    u_completions,  \* how many CompletionDialog windows were opened
    \* ---- the configuration file and its readers (SpecConfig) ----
    cfg_exists,     \* whether the file at Configuration.path exists
    cfg_file,       \* the dict the file holds
    cfg_made,       \* the Configuration objects constructed so far
    cfg_config,     \* Configuration._config of each object
    cfg_last        \* the operation made last and the file before it

filterVars == <<f_args, f_rules, f_path, f_pc, f_ret, f_line>>

pathVars == <<p_tree, p_self, p_pc, p_stack, p_out, p_entered>>

collectVars ==
    <<c_fs, c_self, c_consumer, c_pc, c_todo, c_out, c_last, c_ret>>

uiVars ==
    <<settings, edits, tasks, openai_api_key, u_progress, u_dialogs,
      u_filelist, u_total_tokens, u_models, u_messages, u_completions>>

configVars == <<cfg_exists, cfg_file, cfg_made, cfg_config, cfg_last>>

vars == <<filterVars, pathVars, collectVars, uiVars, configVars>>

\* None of Python where a string is expected: a value that is no string of
\* one-character strings
None == <<"None">>

(***************************************************************************)
(* Strings                                                                 *)
(***************************************************************************)

\* s[i..] of Python, 1-based here
Drop(s, n) == SubSeq(s, n + 1, Len(s))

\* str.startswith
StartsWith(s, prefix) ==
    /\ Len(prefix) <= Len(s)
    /\ SubSeq(s, 1, Len(prefix)) = prefix

\* pathlib: str(path) joins the components with "/"
RECURSIVE PathStr(_)
PathStr(path) ==
    IF Len(path) = 0 THEN <<>>
    ELSE IF Len(path) = 1 THEN path[1]
    ELSE path[1] \o <<"/">> \o PathStr(Tail(path))

\* pathlib: path.name is the last component
PathName(path) == path[Len(path)]

(***************************************************************************)
(* Regular expressions: the fragment used by the filter patterns, literal  *)
(* characters, the wildcard "." and a trailing "$" anchor.                 *)
(***************************************************************************)

\* the pattern without its trailing "$"
ReBody(src) ==
    IF Len(src) > 0 /\ src[Len(src)] = "$" THEN SubSeq(src, 1, Len(src) - 1)
    ELSE src

ReAnchored(src) == Len(src) > 0 /\ src[Len(src)] = "$"

\* the pattern matches s starting right after position i (0-based offset)
ReMatchAt(src, s, i) ==
    LET body == ReBody(src) IN
    /\ i + Len(body) <= Len(s)
    /\ \A k \in 1..Len(body) : body[k] = "." \/ body[k] = s[i + k]
    /\ ReAnchored(src) => i + Len(body) = Len(s)

\* re.Pattern.search(s) is not None
ReSearch(src, s) == \E i \in 0..Len(s) : ReMatchAt(src, s, i)

\* re.compile accepts the pattern: in this fragment an opening parenthesis is
\* never closed, and re.compile raises re.error for it
ReValid(src) == \A k \in 1..Len(src) : src[k] # "("

\* slip: `re.compile(x) if x is not None else None`, the empty string is
\* compiled and matches everywhere
CompileOrNone_EmptyCompiled(src) == src

\* `re.compile(x) if x else None`: the empty string is an absent pattern
CompileOrNone(src) == IF src = <<>> \/ src = None THEN None ELSE src

(***************************************************************************)
(* ContextProvider                                                         *)
(***************************************************************************)

\* the defaults of the keyword arguments of ContextProvider.__init__
DefaultKwargs ==
    [regex_whitelist             |-> None,
     regex_blacklist             |-> None,
     allow_hidden                |-> FALSE,
     recursive                   |-> TRUE,
     allow_hidden_subdirectories |-> FALSE,
     regex_path_whitelist        |-> None,
     regex_path_blacklist        |-> None,
     skip_unreadable             |-> TRUE,
     skip_empty                  |-> FALSE]

\* slip: the patterns are kept as strings and compiled when first used
InitRaises_CompilesLazily(kwargs) == FALSE

\* ContextProvider.__init__ raises re.error: one of the patterns it compiles
\* is malformed
InitRaises(kwargs) ==
    \E f \in {"regex_whitelist", "regex_blacklist", "regex_path_whitelist",
               "regex_path_blacklist"} :
        /\ kwargs[f] # None /\ kwargs[f] # <<>>
        /\ ~ReValid(kwargs[f])

\* ContextProvider.__init__
ContextProvider(directory, kwargs) ==
    [directory                   |-> directory,
     regex_whitelist             |-> CompileOrNone(kwargs.regex_whitelist),
     regex_blacklist             |-> CompileOrNone(kwargs.regex_blacklist),
     allow_hidden                |-> kwargs.allow_hidden,
     recursive                   |-> kwargs.recursive,
     allow_hidden_subdirectories |-> kwargs.allow_hidden_subdirectories,
     regex_path_whitelist        |-> CompileOrNone(kwargs.regex_path_whitelist),
     regex_path_blacklist        |-> CompileOrNone(kwargs.regex_path_blacklist),
     skip_unreadable             |-> kwargs.skip_unreadable,
     skip_empty                  |-> kwargs.skip_empty]

\* ContextProvider._file_matches, as the source line of the return statement
\* that ends the call: 48, 50, 52, 54, 56 return False and 57 returns True.
FileMatchesLine(self, path) ==
    IF ~self.allow_hidden /\ StartsWith(PathName(path), <<".">>) THEN 48
    ELSE IF self.regex_whitelist # None
            /\ ~ReSearch(self.regex_whitelist, PathName(path)) THEN 50
    ELSE IF self.regex_blacklist # None
            /\ ReSearch(self.regex_blacklist, PathName(path)) THEN 52
    ELSE IF self.regex_path_whitelist # None
            /\ ~ReSearch(self.regex_path_whitelist, PathStr(path)) THEN 54
    ELSE IF self.regex_path_blacklist # None
            /\ ReSearch(self.regex_path_blacklist, PathStr(path)) THEN 56
    ELSE 57

\* ContextProvider._file_matches
FileMatches(self, path) == FileMatchesLine(self, path) = 57

(***************************************************************************)
(* The file system: a directory tree and the content of its files          *)
(***************************************************************************)

Entry(name, is_dir) == [name |-> name, is_dir |-> is_dir]

\* Path.iterdir: directory -> its entries in the order the file system
\* lists them
FsTree ==
    (<<<<"r">>>> :> <<Entry(<<"a">>, FALSE), Entry(<<".", "h">>, TRUE),
                     Entry(<<"d">>, TRUE), Entry(<<".", "e">>, FALSE)>>)
    @@ (<<<<"r">>, <<".", "h">>>> :> <<Entry(<<"b">>, FALSE)>>)
    @@ (<<<<"r">>, <<"d">>>> :> <<Entry(<<"a", "b">>, FALSE)>>)

\* every regular file of the tree
FsFiles ==
    UNION {{Append(d, FsTree[d][i].name) :
               i \in {j \in 1..Len(FsTree[d]) : ~FsTree[d][j].is_dir}} :
           d \in DOMAIN FsTree}

\* what a file holds: bytes that decode to text, or bytes that do not
Text(text) == [decodes |-> TRUE, text |-> text]
Undecodable == [decodes |-> FALSE, text |-> <<>>]

FileContents ==
    {Text(<<>>), Text(<<" ">>), Text(<<" ", "a", " ", "b", "b", "\n">>),
     Undecodable}

\* str.strip
IsSpace(c) == c \in {" ", "\n"}

\* the text without its leading white space
LStrip(s) ==
    LET kept == {i \in 1..Len(s) : ~IsSpace(s[i])}
    IN  IF kept = {} THEN <<>>
        ELSE SubSeq(s, CHOOSE i \in kept : \A j \in kept : i <= j, Len(s))

\* the text without its trailing white space
RStrip(s) ==
    LET kept == {i \in 1..Len(s) : ~IsSpace(s[i])}
    IN  IF kept = {} THEN <<>>
        ELSE SubSeq(s, 1, CHOOSE i \in kept : \A j \in kept : j <= i)

\* slip: the content is not trimmed
Strip_Untrimmed(s) == s

Strip(s) == RStrip(LStrip(s))

\* tiktoken: encoding.encode(content), with a vocabulary that holds every run
\* of one repeated character; the empty text encodes to no token
TokenStarts(text) ==
    {i \in 1..Len(text) : i = 1 \/ text[i] # text[i - 1]}

Encode(text) ==
    LET starts == TokenStarts(text)
        nth(k) == CHOOSE i \in starts :
                      Cardinality({j \in starts : j <= i}) = k
        end(k) == IF k = Cardinality(starts) THEN Len(text) ELSE nth(k + 1) - 1
    IN  [k \in 1..Cardinality(starts) |-> SubSeq(text, nth(k), end(k))]

\* ContextProvider.iter_file_paths: the paths it yields, in order
RECURSIVE IterFilePaths(_, _)
RECURSIVE IterEntries(_, _, _)
IterEntries(self, top, entries) ==
    IF entries = <<>> THEN <<>>
    ELSE LET path == Append(top, Head(entries).name)
             yielded ==
                 IF ~Head(entries).is_dir
                 THEN IF FileMatches(self, path) THEN <<path>> ELSE <<>>
                 ELSE IF self.recursive
                 THEN IF self.allow_hidden_subdirectories
                         \/ ~StartsWith(PathName(path), <<".">>)
                      THEN IterFilePaths(self, path)
                      ELSE <<>>
                 ELSE <<>>
         IN  yielded \o IterEntries(self, top, Tail(entries))

IterFilePaths(self, top) == IterEntries(self, top, FsTree[top])

\* slip: the decode error is swallowed whatever skip_unreadable says
IterFilesStep_AlwaysSkip(self, fs, path) ==
    IF ~fs[path].decodes THEN "skip"
    ELSE IF self.skip_empty /\ Strip(fs[path].text) = <<>> THEN "skip"
    ELSE "yield"

\* the body of the loop of iter_files for one path: "raise", "skip" (either
\* continue statement) or "yield"
IterFilesStep(self, fs, path) ==
    IF ~fs[path].decodes
    THEN IF self.skip_unreadable THEN "skip" ELSE "raise"
    ELSE IF self.skip_empty /\ Strip(fs[path].text) = <<>> THEN "skip"
    ELSE "yield"

\* the tuple iter_files yields for a path
FileRecord(fs, path) ==
    [tokens  |-> Len(Encode(Strip(fs[path].text))),
     path    |-> path,
     content |-> Strip(fs[path].text)]

\* slip: the records are counted instead of their tokens being added
PySum_CountsRecords(records) == Len(records)

\* sum() of Python over the token counts of a sequence of records
RECURSIVE PySum(_)
PySum(records) ==
    IF records = <<>> THEN 0
    ELSE records[1].tokens + PySum(Tail(records))

\* calculate_tokens, once iter_files is exhausted
CalculateTokens(records) == PySum(records)

\* what FileProviderThread.run puts in its queue
ThreadResult(records) ==
    [kind         |-> "result",
     result       |-> [i \in 1..Len(records) |->
                          [tokens |-> records[i].tokens,
                           path |-> records[i].path]],
     total_tokens |-> PySum(records)]

ThreadError == [kind |-> "error", result |-> <<>>, total_tokens |-> 0]

\* the whole of iter_files from a list of paths on: the records it yields and
\* whether it ended with the decode error
IterFilesFrom(self, fs, paths) ==
    LET raising == {i \in 1..Len(paths) :
                       IterFilesStep(self, fs, paths[i]) = "raise"}
        reached == IF raising = {} THEN Len(paths)
                   ELSE (CHOOSE i \in raising : \A j \in raising : i <= j) - 1
        yields(path) == IterFilesStep(self, fs, path) = "yield"
        yielded == SelectSeq(SubSeq(paths, 1, reached), yields)
    IN  [raised  |-> raising # {},
         records |-> [i \in 1..Len(yielded) |-> FileRecord(fs, yielded[i])]]

\* ContextProvider.iter_files
IterFiles(self, fs) ==
    IterFilesFrom(self, fs, IterFilePaths(self, self.directory))

(***************************************************************************)
(* get_context                                                             *)
(***************************************************************************)

\* path.relative_to(self.directory), as a string
RelativeTo(path, directory) == PathStr(Drop(path, Len(directory)))

\* slip: the header names the path as iter_files yields it
HeaderLine_FullPath(self, record) ==
    <<"/", "/", " ", "F", "i", "l", "e", " ", "'">>
        \o PathStr(record.path) \o <<"'", "\n">>

\* the first line of the f-string: // File '<relative path>'
HeaderLine(self, record) ==
    <<"/", "/", " ", "F", "i", "l", "e", " ", "'">>
        \o RelativeTo(record.path, self.directory) \o <<"'", "\n">>

\* the f-string of get_context for one record
Block(self, record) ==
    HeaderLine(self, record) \o record.content \o <<"\n">>

\* slip: the blocks are joined with one blank line
Separator_TwoNewlines == <<"\n", "\n">>

\* the string whose join method get_context calls
Separator == <<"\n", "\n", "\n">>

\* slip: the parts are joined last to first
RECURSIVE StrJoin_Reversed(_, _)
StrJoin_Reversed(sep, parts) ==
    IF parts = <<>> THEN <<>>
    ELSE IF Len(parts) = 1 THEN parts[1]
    ELSE StrJoin_Reversed(sep, Tail(parts)) \o sep \o parts[1]

\* str.join
RECURSIVE StrJoin(_, _)
StrJoin(sep, parts) ==
    IF parts = <<>> THEN <<>>
    ELSE IF Len(parts) = 1 THEN parts[1]
    ELSE parts[1] \o sep \o StrJoin(sep, Tail(parts))

\* get_context, once iter_files is exhausted
ContextText(self, records) ==
    StrJoin(Separator, [i \in 1..Len(records) |-> Block(self, records[i])])

(***************************************************************************)
(* The user interface: live settings                                       *)
(***************************************************************************)

\* the values the user can give to each tk variable
SettingValues ==
    [project_path                |-> {<<<<"r">>>>, <<<<"r">>, <<"d">>>>},
     regex_whitelist             |-> {<<>>, <<"a", "$">>, <<"(", "a">>},
     regex_blacklist             |-> {<<>>, <<"b">>},
     regex_path_whitelist        |-> {<<>>, <<"/", "a">>},
     regex_path_blacklist        |-> {<<>>, <<"d", "/">>},
     recursive                   |-> BOOLEAN,
     allow_hidden_subdirectories |-> BOOLEAN,
     skip_unreadable             |-> BOOLEAN,
     skip_empty_files            |-> BOOLEAN,
     openai_api_token            |-> {"", "key-1", "key-2"},
     selected_model              |-> {<<>>, <<"gpt-", "4">>},
     max_tokens                  |-> {500, 100},
     prompt                      |-> {"", "readme", "summary"}]

\* the tk variables as the frames create them; token and model come from
\* the stored configuration
InitialSettings(token, model) ==
    [project_path                |-> <<<<"r">>>>,
     regex_whitelist             |-> <<>>,
     regex_blacklist             |-> <<>>,
     regex_path_whitelist        |-> <<>>,
     regex_path_blacklist        |-> <<>>,
     recursive                   |-> TRUE,
     allow_hidden_subdirectories |-> FALSE,
     skip_unreadable             |-> TRUE,
     skip_empty_files            |-> FALSE,
     openai_api_token            |-> token,
     selected_model              |-> model,
     max_tokens                  |-> 500,
     prompt                      |-> "readme"]

\* `x.strip() or None`
StripOrNone(x) == IF Strip(x) = <<>> THEN None ELSE Strip(x)

\* the keyword arguments MainFrame.context_provider passes
MainFrameKwargs(st) ==
    [DefaultKwargs EXCEPT
        !.regex_whitelist = StripOrNone(st.regex_whitelist),
        !.regex_blacklist = StripOrNone(st.regex_blacklist),
        !.regex_path_whitelist = StripOrNone(st.regex_path_whitelist),
        !.regex_path_blacklist = StripOrNone(st.regex_path_blacklist),
        !.recursive = st.recursive,
        !.allow_hidden_subdirectories = st.allow_hidden_subdirectories,
        !.skip_unreadable = st.skip_unreadable,
        !.skip_empty = st.skip_empty_files]

\* MainFrame.context_provider: a new ContextProvider from the tk variables
MainFrameContextProvider(st) ==
    ContextProvider(st.project_path, MainFrameKwargs(st))

\* the files of the project the interface works on
UiFs ==
    (<<<<"r">>, <<"a">>>> :> Text(<<" ", "a", " ", "b", "b", "\n">>))
    @@ (<<<<"r">>, <<".", "e">>>> :> Text(<<"a">>))
    @@ (<<<<"r">>, <<".", "h">>, <<"b">>>> :> Text(<<" ">>))
    @@ (<<<<"r">>, <<"d">>, <<"a", "b">>>> :> Undecodable)

\* every ContextProvider the interface can build from its tk variables
UiProviders ==
    {MainFrameContextProvider(
         [InitialSettings("", <<>>) EXCEPT
             !.project_path = st.project_path,
             !.regex_whitelist = st.regex_whitelist,
             !.regex_blacklist = st.regex_blacklist,
             !.regex_path_whitelist = st.regex_path_whitelist,
             !.regex_path_blacklist = st.regex_path_blacklist,
             !.recursive = st.recursive,
             !.allow_hidden_subdirectories = st.allow_hidden_subdirectories,
             !.skip_unreadable = st.skip_unreadable,
             !.skip_empty_files = st.skip_empty_files]) :
     st \in [project_path : SettingValues.project_path,
             regex_whitelist : SettingValues.regex_whitelist,
             regex_blacklist : SettingValues.regex_blacklist,
             regex_path_whitelist : SettingValues.regex_path_whitelist,
             regex_path_blacklist : SettingValues.regex_path_blacklist,
             recursive : BOOLEAN,
             allow_hidden_subdirectories : BOOLEAN,
             skip_unreadable : BOOLEAN,
             skip_empty_files : BOOLEAN]}

\* provider.iter_files() on the files of the project, for each of them
UiIterFiles == [provider \in UiProviders |-> IterFiles(provider, UiFs)]

(***************************************************************************)
(* The remote service                                                      *)
(***************************************************************************)

\* openai.Model.list()["data"]: every model has an identifier and the name
\* of the model it derives from, which for a base model is its own
ServiceModels ==
    <<[id |-> <<"whisper-", "1">>, root |-> <<"whisper-", "1">>],
      [id |-> <<"x", "1">>, root |-> <<"gpt-", "4">>],
      [id |-> <<"gpt-", "4">>, root |-> <<"gpt-", "4">>],
      [id |-> <<"gpt-", "x">>, root |-> <<"whisper-", "1">>],
      [id |-> <<"code-", "x">>, root |-> <<"code-", "x">>]>>

\* the order of Python on the strings used as model identifiers
Rank(chunk) ==
    CASE chunk = "1" -> 1 [] chunk = "4" -> 2 [] chunk = "code-" -> 3
      [] chunk = "gpt-" -> 4 [] chunk = "text-" -> 5 [] chunk = "whisper-" -> 6
      [] chunk = "x" -> 7 [] OTHER -> 0

RECURSIVE StrLess(_, _)
StrLess(a, b) ==
    IF b = <<>> THEN FALSE
    ELSE IF a = <<>> THEN TRUE
    ELSE IF Rank(a[1]) # Rank(b[1]) THEN Rank(a[1]) < Rank(b[1])
    ELSE StrLess(Tail(a), Tail(b))

\* slip: the list is exposed in the order of the service
PySorted_Unsorted(list) == list

\* sorted() of Python on a list of strings: stable, ascending
PySorted(list) ==
    LET before(i, j) == \/ StrLess(list[i], list[j])
                        \/ ~StrLess(list[j], list[i]) /\ i < j
        place(i) == 1 + Cardinality({j \in 1..Len(list) : before(j, i)})
    IN  [k \in 1..Len(list) |->
            list[CHOOSE i \in 1..Len(list) : place(i) = k]]

\* the list comprehension of list_models and of ModelProviderThread.run
RECURSIVE ListModels(_)
ListModels(data) ==
    IF data = <<>> THEN <<>>
    ELSE (IF \/ StartsWith(Head(data).root, <<"code-">>)
             \/ StartsWith(Head(data).root, <<"text-">>)
             \/ StartsWith(Head(data).root, <<"gpt-">>)
          THEN <<Head(data).id>> ELSE <<>>)
         \o ListModels(Tail(data))

(***************************************************************************)
(* Background tasks                                                        *)
(***************************************************************************)

\* the keyword defaults of CompletionAPIBackgroundTask.__init__; the other
\* threads use the fields they are given
DefaultArgs ==
    [api_token        |-> "",
     prompt           |-> "",
     context_provider |-> ContextProvider(<<<<"r">>>>, DefaultKwargs),
     max_tokens       |-> 500,
     model            |-> <<"davinci">>]

\* FileProviderThread(result_queue, context_provider=self.context_provider)
FileProviderArgs(st) ==
    [DefaultArgs EXCEPT !.context_provider = MainFrameContextProvider(st)]

\* ModelProviderBackgroundTask(master, api_token=openai_api_token.get())
ModelProviderArgs(st) ==
    [DefaultArgs EXCEPT !.api_token = st.openai_api_token]

\* CompletionAPIBackgroundTask(master, api_token=..., model=..., prompt=...,
\* max_tokens=..., context_provider=self.context_provider)
CompletionArgs(st) ==
    [api_token        |-> st.openai_api_token,
     prompt           |-> st.prompt,
     context_provider |-> MainFrameContextProvider(st),
     max_tokens       |-> st.max_tokens,
     model            |-> st.selected_model]

\* the records put in a result queue
ResultDict(result, total_tokens) ==
    [kind |-> "result", result |-> result, total_tokens |-> total_tokens,
     error |-> "", exception |-> ""]

ErrorDict(error, exception) ==
    [kind |-> "error", result |-> <<>>, total_tokens |-> 0,
     error |-> error, exception |-> exception]

NoDict == [kind |-> "none", result |-> <<>>, total_tokens |-> 0,
           error |-> "", exception |-> ""]

\* nothing scanned and nothing sent yet
NoRequest ==
    [scanned |-> FALSE, context_provider |-> DefaultArgs.context_provider,
     api_token |-> "", sent |-> FALSE, api_key |-> "", model |-> <<>>,
     prompt |-> "", max_tokens |-> 0]

\* what run() puts in the queue once the unit of work returned or raised
RunOutcome(task) ==
    IF task.kind = "FileProviderThread"
    THEN IF task.raised # ""
         THEN ErrorDict("Unexpected error occurred", task.raised)
         ELSE ResultDict(task.value, PySum(task.value))
    ELSE IF task.kind = "ModelProviderThread"
    THEN IF task.raised # ""
         THEN ErrorDict(task.raised, "")
         ELSE ResultDict(PySorted(task.value), 0)
    ELSE IF task.raised # ""
         THEN ErrorDict("Unexpected error occurred", task.raised)
         ELSE ResultDict(task.value, 0)

\* a thread object right after start() and, for the polled ones, after()
NewTask(kind, args, st, polled) ==
    [kind      |-> kind,
     args      |-> args,
     submitted |-> st,        \* the live settings when it was created
     pc        |-> "start",   \* where run() is
     context   |-> <<>>,      \* the records get_context rendered
     raised    |-> "",        \* the exception the unit of work raised
     value     |-> <<>>,      \* the value the unit of work returned
     request   |-> NoRequest, \* what the unit of work scanned or sent
     queue     |-> <<>>,      \* result_queue
     puts      |-> 0,         \* result_queue.put calls so far
     poll      |-> polled,    \* an after() callback is pending
     gets      |-> 0,         \* result_queue.get calls so far
     handler   |-> "none",    \* the handler that was invoked
     handled   |-> 0,         \* handler invocations so far
     delivered |-> NoDict]    \* the record the handler was given

\* slip: the thread keeps the frames and reads the tk variables when it runs
TaskArgs_ReadsLive(t) ==
    IF tasks[t].kind = "CompletionAPIBackgroundTask"
    THEN CompletionArgs(settings)
    ELSE IF tasks[t].kind = "FileProviderThread"
    THEN FileProviderArgs(settings)
    ELSE ModelProviderArgs(settings)

\* the attributes run() and its target read from the thread object
TaskArgs(t) == tasks[t].args

\* slip: the record is not tested for "error"
CheckResultHandler_IgnoresError(result, has_on_error) == "on_success"

\* the handler BackgroundTask._check_result calls for a record
CheckResultHandler(result, has_on_error) ==
    IF result.kind = "error"
    THEN IF has_on_error THEN "on_error" ELSE "showerror"
    ELSE "on_success"

(***************************************************************************)
(* Bounds of the filter check                                              *)
(***************************************************************************)

\* pattern source strings handed to the constructor
PatternSrcs ==
    {None, <<>>, <<"a">>, <<"b", "$">>, <<".", "a">>, <<"/", ".">>}

\* candidate paths: root directory "r", optional sub-directory, base name
FilterPaths ==
    {<<<<"r">>, <<"a">>>>,
     <<<<"r">>, <<"a", "b">>>>,
     <<<<"r">>, <<".", "a">>>>,
     <<<<"r">>, <<"b">>, <<"a">>>>,
     <<<<"r">>, <<".", "b">>, <<"b", "a">>>>,
     <<<<"r">>, <<"a">>, <<".", "b">>>>}

(***************************************************************************)
(* Bounds                                                                  *)
(***************************************************************************)

\* threads started in one behaviour
MaxTasks == 2

\* changes the user makes to the settings in one behaviour
MaxEdits == 1

\* threads started in one behaviour of the specification with fairness
MaxLiveTasks == 1

\* threads started in one behaviour of the specification in which the user
\* changes any setting
MaxSettingsTasks == 1

(***************************************************************************)
(* Configuration: the JSON file and the instances that cache it            *)
(***************************************************************************)

\* the keys of the file that are followed: update_config writes
\* openai_model, save_preset writes presets
ConfigKeys == {"openai_model", "presets"}

\* the names the user gives to presets; the regex fields a preset holds are
\* left out
PresetNames == {"p", "q"}

\* the values a key can have in the file: a model identifier, and the preset
\* names in the order of the dict
ConfigValues ==
    [openai_model |-> {<<"gpt-", "4">>, <<"code-", "x">>},
     presets |-> {<<"p">>, <<"q">>, <<"p", "q">>, <<"q", "p">>}]

\* the Configuration objects on the one file: the App of two processes
Instances == {1, 2}

\* a dict as dict.get sees it: None for a key that is not there
EmptyDict == [k \in ConfigKeys |-> None]

\* what is known of the operation made last
NoOperation ==
    [op |-> "none", inst |-> 0, key |-> "", value |-> None,
     before |-> EmptyDict]

ConfigIdle ==
    /\ cfg_exists = FALSE
    /\ cfg_file = EmptyDict
    /\ cfg_made = {}
    /\ cfg_config = [i \in Instances |-> EmptyDict]
    /\ cfg_last = NoOperation

(***************************************************************************)
(* The parts a specification leaves alone                                  *)
(***************************************************************************)

FilterIdle ==
    /\ f_args = DefaultKwargs
    /\ f_rules = ContextProvider(<<<<"r">>>>, DefaultKwargs)
    /\ f_path = <<<<"r">>, <<"a">>>>
    /\ f_pc = "idle"
    /\ f_ret = FALSE
    /\ f_line = 0

PathsIdle ==
    /\ p_tree = FsTree
    /\ p_self = ContextProvider(<<<<"r">>>>, DefaultKwargs)
    /\ p_pc = "idle"
    /\ p_stack = <<>>
    /\ p_out = <<>>
    /\ p_entered = {}

Consumers == {"calculate_tokens", "FileProviderThread", "get_context"}

NoOutcome == [kind |-> "none", result |-> <<>>, total_tokens |-> 0]

CollectIdle ==
    /\ c_fs = [p \in FsFiles |-> Text(<<>>)]
    /\ c_self = ContextProvider(<<<<"r">>>>, DefaultKwargs)
    /\ c_consumer = "calculate_tokens"
    /\ c_pc = "idle"
    /\ c_todo = <<>>
    /\ c_out = <<>>
    /\ c_last = "none"
    /\ c_ret = NoOutcome

UiIdle ==
    /\ settings = InitialSettings("", <<>>)
    /\ edits = 0
    /\ tasks = <<>>
    /\ openai_api_key = ""
    /\ u_progress = 0
    /\ u_dialogs = {}
    /\ u_filelist = <<>>
    /\ u_total_tokens = 0
    /\ u_models = <<>>
    /\ u_messages = {}
    /\ u_completions = 0

(***************************************************************************)
(* SpecCollect: one pass of iter_files over the tree, consumed either by   *)
(* calculate_tokens or by FileProviderThread.run                           *)
(***************************************************************************)

InitCollect ==
    /\ c_fs \in [FsFiles -> FileContents]
    /\ \E wl \in {None, <<"a">>}, ah \in BOOLEAN, rec \in BOOLEAN,
          ahs \in BOOLEAN, su \in BOOLEAN, se \in BOOLEAN :
          c_self = ContextProvider(<<<<"r">>>>,
                       [DefaultKwargs EXCEPT !.regex_whitelist = wl,
                                             !.allow_hidden = ah,
                                             !.recursive = rec,
                                             !.allow_hidden_subdirectories = ahs,
                                             !.skip_unreadable = su,
                                             !.skip_empty = se])
    /\ c_consumer \in Consumers
    /\ c_pc = "start"
    /\ c_todo = <<>>
    /\ c_out = <<>>
    /\ c_last = "none"
    /\ c_ret = NoOutcome
    /\ FilterIdle
    /\ PathsIdle
    /\ UiIdle
    /\ ConfigIdle

\* the consumer asks for the first record: iter_files starts iterating
\* iter_file_paths
StartIterFiles ==
    /\ c_pc = "start"
    /\ c_pc' = "iter"
    /\ c_todo' = IterFilePaths(c_self, c_self.directory)
    /\ UNCHANGED <<c_fs, c_self, c_consumer, c_out, c_last, c_ret>>
    /\ UNCHANGED <<filterVars, pathVars, uiVars, configVars>>

\* the next path is read, tokenised and yielded
IterFilesYield ==
    /\ c_pc = "iter" /\ c_todo # <<>>
    /\ IterFilesStep(c_self, c_fs, Head(c_todo)) = "yield"
    /\ c_out' = Append(c_out, FileRecord(c_fs, Head(c_todo)))
    /\ c_todo' = Tail(c_todo)
    /\ c_last' = "yield"
    /\ UNCHANGED <<c_fs, c_self, c_consumer, c_pc, c_ret>>
    /\ UNCHANGED <<filterVars, pathVars, uiVars, configVars>>

\* the next path is passed over by one of the continue statements
IterFilesSkip ==
    /\ c_pc = "iter" /\ c_todo # <<>>
    /\ IterFilesStep(c_self, c_fs, Head(c_todo)) = "skip"
    /\ c_todo' = Tail(c_todo)
    /\ c_last' = "skip"
    /\ UNCHANGED <<c_fs, c_self, c_consumer, c_pc, c_out, c_ret>>
    /\ UNCHANGED <<filterVars, pathVars, uiVars, configVars>>

\* the UnicodeDecodeError is re-raised: the generator is finished, the
\* consumer either lets the error through (calculate_tokens) or catches it
\* and puts an error record (FileProviderThread.run)
IterFilesRaise ==
    /\ c_pc = "iter" /\ c_todo # <<>>
    /\ IterFilesStep(c_self, c_fs, Head(c_todo)) = "raise"
    /\ c_pc' = "raised"
    /\ c_last' = "raise"
    /\ c_ret' = IF c_consumer = "FileProviderThread" THEN ThreadError
                ELSE NoOutcome
    /\ UNCHANGED <<c_fs, c_self, c_consumer, c_todo, c_out>>
    /\ UNCHANGED <<filterVars, pathVars, uiVars, configVars>>

\* iter_file_paths is exhausted: the consumer computes its result
IterFilesStop ==
    /\ c_pc = "iter" /\ c_todo = <<>>
    /\ c_pc' = "done"
    /\ c_ret' = IF c_consumer = "FileProviderThread" THEN ThreadResult(c_out)
                ELSE IF c_consumer = "get_context"
                THEN [kind |-> "text",
                      result |-> ContextText(c_self, c_out),
                      total_tokens |-> 0]
                ELSE [kind |-> "return", result |-> <<>>,
                      total_tokens |-> CalculateTokens(c_out)]
    /\ UNCHANGED <<c_fs, c_self, c_consumer, c_todo, c_out, c_last>>
    /\ UNCHANGED <<filterVars, pathVars, uiVars, configVars>>

NextCollect ==
    \/ StartIterFiles
    \/ IterFilesYield
    \/ IterFilesSkip
    \/ IterFilesRaise
    \/ IterFilesStop

SpecCollect == InitCollect /\ [][NextCollect]_vars

(***************************************************************************)
(* SpecPaths: one pass of the generator iter_file_paths over a directory   *)
(* tree, one loop iteration per step; `yield from` is a frame pushed on    *)
(* p_stack                                                                 *)
(***************************************************************************)

\* a directory without entries
TreeEmpty == <<<<"r">>>> :> <<>>

\* two files in one directory
TreeFlat ==
    <<<<"r">>>> :> <<Entry(<<"a", ".", "p", "y">>, FALSE),
                    Entry(<<"b", ".", "t", "x", "t">>, FALSE)>>

\* directories in directories, hidden and not
TreeDeep ==
    (<<<<"r">>>> :> <<Entry(<<"d">>, TRUE), Entry(<<".", "a">>, FALSE)>>)
    @@ (<<<<"r">>, <<"d">>>> :>
            <<Entry(<<".", "g">>, TRUE), Entry(<<"a">>, FALSE)>>)
    @@ (<<<<"r">>, <<"d">>, <<".", "g">>>> :>
            <<Entry(<<"s">>, TRUE), Entry(<<".", "a">>, FALSE),
              Entry(<<"a">>, FALSE)>>)
    @@ (<<<<"r">>, <<"d">>, <<".", "g">>, <<"s">>>> :>
            <<Entry(<<"a">>, FALSE), Entry(<<"b">>, FALSE)>>)

PathTrees == {TreeEmpty, TreeFlat, TreeDeep, FsTree}

\* name patterns given to the providers of SpecPaths
PathPatterns == {None, <<"a">>, <<".", "p", "y", "$">>}

InitPaths ==
    /\ p_tree \in PathTrees
    /\ \E top \in DOMAIN p_tree, wl \in PathPatterns, ah \in BOOLEAN,
          rec \in BOOLEAN, ahs \in BOOLEAN :
          /\ Len(top) <= 2
          /\ p_self = ContextProvider(top,
                 [DefaultKwargs EXCEPT !.regex_whitelist = wl,
                                       !.allow_hidden = ah,
                                       !.recursive = rec,
                                       !.allow_hidden_subdirectories = ahs])
    /\ p_pc = "call"
    /\ p_stack = <<>>
    /\ p_out = <<>>
    /\ p_entered = {}
    /\ FilterIdle
    /\ CollectIdle
    /\ UiIdle
    /\ ConfigIdle

\* the frame of the innermost generator, the directory it lists and the
\* entry its loop is at
Frame == p_stack[Len(p_stack)]
FrameEntries == p_tree[Frame.dir]
AtEntry == p_pc = "run" /\ Frame.i <= Len(FrameEntries)
FrameEntry == FrameEntries[Frame.i]
FramePath == Append(Frame.dir, FrameEntry.name)

\* the loop of the innermost generator moves to the next entry
NextEntry == [p_stack EXCEPT ![Len(p_stack)].i = @ + 1]

\* slip: the file-level flag allow_hidden decides about hidden directories
Descends_UsesAllowHidden(self, path) ==
    /\ self.recursive
    /\ self.allow_hidden \/ ~StartsWith(PathName(path), <<".">>)

\* the two conditions under which iter_file_paths recurses into a directory
Descends(self, path) ==
    /\ self.recursive
    /\ self.allow_hidden_subdirectories
           \/ ~StartsWith(PathName(path), <<".">>)

\* the consumer asks for the first path: `top = top or self.directory`
IterFilePathsCall ==
    /\ p_pc = "call"
    /\ p_pc' = "run"
    /\ p_stack' = <<[dir |-> p_self.directory, i |-> 1]>>
    /\ p_entered' = {p_self.directory}
    /\ UNCHANGED <<p_tree, p_self, p_out>>
    /\ UNCHANGED <<filterVars, collectVars, uiVars, configVars>>

\* a file that _file_matches accepts is yielded
IterFilePathsYield ==
    /\ AtEntry /\ ~FrameEntry.is_dir
    /\ FileMatches(p_self, FramePath)
    /\ p_out' = Append(p_out, FramePath)
    /\ p_stack' = NextEntry
    /\ UNCHANGED <<p_tree, p_self, p_pc, p_entered>>
    /\ UNCHANGED <<filterVars, collectVars, uiVars, configVars>>

\* slip: a file that _file_matches rejects is yielded all the same
IterFilePathsReject_Yields ==
    /\ AtEntry /\ ~FrameEntry.is_dir
    /\ ~FileMatches(p_self, FramePath)
    /\ p_out' = Append(p_out, FramePath)
    /\ p_stack' = NextEntry
    /\ UNCHANGED <<p_tree, p_self, p_pc, p_entered>>
    /\ UNCHANGED <<filterVars, collectVars, uiVars, configVars>>

\* a file that _file_matches rejects is passed over
IterFilePathsReject ==
    /\ AtEntry /\ ~FrameEntry.is_dir
    /\ ~FileMatches(p_self, FramePath)
    /\ p_stack' = NextEntry
    /\ UNCHANGED <<p_tree, p_self, p_pc, p_out, p_entered>>
    /\ UNCHANGED <<filterVars, collectVars, uiVars, configVars>>

\* `yield from self.iter_file_paths(path)`: a new generator lists the
\* sub-directory; the loop of this one goes on when that one is exhausted
IterFilePathsDescend ==
    /\ AtEntry /\ FrameEntry.is_dir
    /\ Descends(p_self, FramePath)
    /\ p_stack' = Append(NextEntry, [dir |-> FramePath, i |-> 1])
    /\ p_entered' = p_entered \cup {FramePath}
    /\ UNCHANGED <<p_tree, p_self, p_pc, p_out>>
    /\ UNCHANGED <<filterVars, collectVars, uiVars, configVars>>

\* a directory that is not descended into
IterFilePathsSkipDir ==
    /\ AtEntry /\ FrameEntry.is_dir
    /\ ~Descends(p_self, FramePath)
    /\ p_stack' = NextEntry
    /\ UNCHANGED <<p_tree, p_self, p_pc, p_out, p_entered>>
    /\ UNCHANGED <<filterVars, collectVars, uiVars, configVars>>

\* iterdir() is exhausted: the generator returns, to the generator that
\* delegated to it or, for the outermost one, to the consumer
IterFilePathsReturn ==
    /\ p_pc = "run" /\ Frame.i > Len(FrameEntries)
    /\ p_stack' = SubSeq(p_stack, 1, Len(p_stack) - 1)
    /\ p_pc' = IF Len(p_stack) = 1 THEN "done" ELSE "run"
    /\ UNCHANGED <<p_tree, p_self, p_out, p_entered>>
    /\ UNCHANGED <<filterVars, collectVars, uiVars, configVars>>

NextPaths ==
    \/ IterFilePathsCall
    \/ IterFilePathsYield
    \/ IterFilePathsReject
    \/ IterFilePathsDescend
    \/ IterFilePathsSkipDir
    \/ IterFilePathsReturn

SpecPaths == InitPaths /\ [][NextPaths]_vars

\* the consumer keeps asking for the next path
LivePaths == SpecPaths /\ WF_vars(NextPaths)

(***************************************************************************)
(* SpecFilter: one call of _file_matches on any rule set and path          *)
(***************************************************************************)

InitFilter ==
    /\ \E wl \in PatternSrcs, bl \in PatternSrcs, pwl \in PatternSrcs,
          pbl \in PatternSrcs, ah \in BOOLEAN :
          f_args = [DefaultKwargs EXCEPT !.regex_whitelist = wl,
                                         !.regex_blacklist = bl,
                                         !.regex_path_whitelist = pwl,
                                         !.regex_path_blacklist = pbl,
                                         !.allow_hidden = ah]
    /\ f_rules = ContextProvider(<<<<"r">>>>, f_args)
    /\ f_path \in FilterPaths
    /\ f_pc = "call"
    /\ f_ret = FALSE
    /\ f_line = 0
    /\ PathsIdle
    /\ CollectIdle
    /\ UiIdle
    /\ ConfigIdle

CallFileMatches ==
    /\ f_pc = "call"
    /\ f_pc' = "ret"
    /\ f_line' = FileMatchesLine(f_rules, f_path)
    /\ f_ret' = FileMatches(f_rules, f_path)
    /\ UNCHANGED <<f_args, f_rules, f_path>>
    /\ UNCHANGED <<pathVars, collectVars, uiVars, configVars>>

NextFilter == CallFileMatches

SpecFilter == InitFilter /\ [][NextFilter]_vars


(***************************************************************************)
(* Spec: the interface, the worker threads and the polling callbacks       *)
(***************************************************************************)

Tasks == 1..Len(tasks)

BackgroundTaskKinds ==
    {"ModelProviderBackgroundTask", "CompletionAPIBackgroundTask"}

Range(seq) == {seq[i] : i \in 1..Len(seq)}

InitUi ==
    /\ \E stored \in {<<"", <<>>>>, <<"key-1", <<"gpt-", "4">>>>} :
          settings = InitialSettings(stored[1], stored[2])
    /\ edits = 0
    /\ tasks = <<>>
    /\ openai_api_key = ""
    /\ u_progress = 0
    /\ u_dialogs = {}
    /\ u_filelist = <<>>
    /\ u_total_tokens = 0
    /\ u_models = <<>>
    /\ u_messages = {}
    /\ u_completions = 0
    /\ FilterIdle
    /\ PathsIdle
    /\ CollectIdle
    /\ ConfigIdle

\* MainFrame.disable
Disable(dialog) ==
    /\ u_progress' = dialog
    /\ u_dialogs' = u_dialogs \cup {dialog}

\* MainFrame.enable
Enable ==
    /\ u_progress' = 0
    /\ u_dialogs' = IF u_progress # 0 THEN u_dialogs \ {u_progress}
                    ELSE u_dialogs

\* the user types into an entry, ticks a box or picks a model of the
\* read-only combobox
SetSetting(fields) ==
    /\ edits < MaxEdits
    /\ \E f \in fields : \E v \in SettingValues[f] :
          /\ v # settings[f]
          /\ f = "selected_model" => v \in Range(u_models)
          /\ settings' = [settings EXCEPT ![f] = v]
    /\ edits' = edits + 1
    /\ UNCHANGED <<tasks, openai_api_key, u_progress, u_dialogs, u_filelist,
                   u_total_tokens, u_models, u_messages, u_completions>>
    /\ UNCHANGED <<filterVars, pathVars, collectVars, configVars>>

\* MainFrame.scan when the ContextProvider cannot be built: disable() and
\* the clearing of the list are done, the re.error leaves scan() before the
\* thread object exists and ends the tk callback
ScanRaises ==
    /\ InitRaises(MainFrameKwargs(settings))
    /\ Disable(0 - (Len(tasks) + 1))
    /\ u_filelist' = <<>>
    /\ UNCHANGED <<settings, edits, tasks, openai_api_key, u_total_tokens,
                   u_models, u_messages, u_completions>>
    /\ UNCHANGED <<filterVars, pathVars, collectVars, configVars>>

\* MainFrame.scan
Scan(max) ==
    /\ ~InitRaises(MainFrameKwargs(settings))
    /\ Len(tasks) < max
    /\ Disable(Len(tasks) + 1)
    /\ u_filelist' = <<>>
    /\ tasks' = Append(tasks, NewTask("FileProviderThread",
                                      FileProviderArgs(settings), settings,
                                      TRUE))
    /\ UNCHANGED <<settings, edits, openai_api_key, u_total_tokens, u_models,
                   u_messages, u_completions>>
    /\ UNCHANGED <<filterVars, pathVars, collectVars, configVars>>

\* OpenAISettingsFrame.refresh_models with a token
RefreshModels(max) ==
    /\ settings.openai_api_token # ""
    /\ Len(tasks) < max
    /\ Disable(Len(tasks) + 1)
    /\ tasks' = Append(tasks, NewTask("ModelProviderBackgroundTask",
                                      ModelProviderArgs(settings), settings,
                                      TRUE))
    /\ UNCHANGED <<settings, edits, openai_api_key, u_filelist,
                   u_total_tokens, u_models, u_messages, u_completions>>
    /\ UNCHANGED <<filterVars, pathVars, collectVars, configVars>>

\* OpenAISettingsFrame.refresh_models without a token
RefreshModelsNoToken ==
    /\ settings.openai_api_token = ""
    /\ u_messages' = u_messages \cup {<<"Error", "OpenAI API token is not set">>}
    /\ UNCHANGED <<settings, edits, tasks, openai_api_key, u_progress,
                   u_dialogs, u_filelist, u_total_tokens, u_models,
                   u_completions>>
    /\ UNCHANGED <<filterVars, pathVars, collectVars, configVars>>

\* slip: generate does not test the prompt
GenerateError_NoPromptCheck(st) ==
    IF st.openai_api_token = "" THEN "OpenAI API token is not set"
    ELSE IF st.selected_model = <<>> THEN "Model is not selected"
    ELSE ""

\* the message of the first check of MainFrame.generate that fails, "" if
\* none does
GenerateError(st) ==
    IF st.openai_api_token = "" THEN "OpenAI API token is not set"
    ELSE IF st.selected_model = <<>> THEN "Model is not selected"
    ELSE IF st.prompt = "" THEN "Prompt is empty"
    ELSE ""

\* MainFrame.generate when the ContextProvider cannot be built: disable() is
\* done, the re.error leaves generate() while the arguments of the task are
\* evaluated
GenerateRaises ==
    /\ GenerateError(settings) = ""
    /\ InitRaises(MainFrameKwargs(settings))
    /\ Disable(0 - (Len(tasks) + 1))
    /\ UNCHANGED <<settings, edits, tasks, openai_api_key, u_filelist,
                   u_total_tokens, u_models, u_messages, u_completions>>
    /\ UNCHANGED <<filterVars, pathVars, collectVars, configVars>>

\* MainFrame.generate with token, model and prompt
Generate(max) ==
    /\ GenerateError(settings) = ""
    /\ ~InitRaises(MainFrameKwargs(settings))
    /\ Len(tasks) < max
    /\ Disable(Len(tasks) + 1)
    /\ tasks' = Append(tasks, NewTask("CompletionAPIBackgroundTask",
                                      CompletionArgs(settings), settings,
                                      TRUE))
    /\ UNCHANGED <<settings, edits, openai_api_key, u_filelist,
                   u_total_tokens, u_models, u_messages, u_completions>>
    /\ UNCHANGED <<filterVars, pathVars, collectVars, configVars>>

\* MainFrame.generate returning at one of its three checks
GenerateRejected ==
    /\ GenerateError(settings) # ""
    /\ u_messages' = u_messages \cup {<<"Error", GenerateError(settings)>>}
    /\ UNCHANGED <<settings, edits, tasks, openai_api_key, u_progress,
                   u_dialogs, u_filelist, u_total_tokens, u_models,
                   u_completions>>
    /\ UNCHANGED <<filterVars, pathVars, collectVars, configVars>>

\* a ModelProviderThread is created and started; the interface has no caller
\* of this class and nothing polls its queue
StartModelProviderThread(max) ==
    /\ Len(tasks) < max
    /\ tasks' = Append(tasks, NewTask("ModelProviderThread",
                                      ModelProviderArgs(settings), settings,
                                      FALSE))
    /\ UNCHANGED <<settings, edits, openai_api_key, u_progress, u_dialogs,
                   u_filelist, u_total_tokens, u_models, u_messages,
                   u_completions>>
    /\ UNCHANGED <<filterVars, pathVars, collectVars, configVars>>

UiUnchanged ==
    UNCHANGED <<settings, edits, u_progress, u_dialogs, u_filelist,
                u_total_tokens, u_models, u_messages, u_completions>>

\* slip: the target reports that it started through the result queue
SetApiKey_PutsInterim(t) ==
    /\ tasks[t].kind # "FileProviderThread"
    /\ tasks[t].pc = "start"
    /\ openai_api_key' = TaskArgs(t).api_token
    /\ tasks' = [tasks EXCEPT ![t] =
           [@ EXCEPT !.pc = IF tasks[t].kind = "CompletionAPIBackgroundTask"
                            THEN "context" ELSE "request",
                     !.request.api_token = TaskArgs(t).api_token,
                     !.queue = Append(@, ResultDict(<<>>, 0))]]
    /\ UiUnchanged
    /\ UNCHANGED <<filterVars, pathVars, collectVars, configVars>>

\* the thread object after its unit of work iterated provider.iter_files():
\* the decode error ends the unit of work, else the records are kept, as
\* context by get_completion (which goes on) and as result by
\* FileProviderThread.run (which is finished)
AfterIterFiles(task, provider, pc) ==
    LET run == UiIterFiles[provider]
        req == [task.request EXCEPT !.scanned = TRUE,
                                    !.context_provider = provider]
    IN  IF run.raised
        THEN [task EXCEPT !.pc = "finished", !.request = req,
                          !.raised = "UnicodeDecodeError"]
        ELSE IF pc = "finished"
        THEN [task EXCEPT !.pc = pc, !.request = req,
                          !.value = [i \in 1..Len(run.records) |->
                                        [tokens |-> run.records[i].tokens,
                                         path |-> run.records[i].path]]]
        ELSE [task EXCEPT !.pc = pc, !.request = req,
                          !.context = run.records]

\* `openai.api_key = api_token`, the first statement of list_models, of
\* get_completion and of ModelProviderThread.run
SetApiKey(t) ==
    /\ tasks[t].kind # "FileProviderThread"
    /\ tasks[t].pc = "start"
    /\ openai_api_key' = TaskArgs(t).api_token
    /\ tasks' = [tasks EXCEPT ![t] =
           [@ EXCEPT !.pc = IF tasks[t].kind = "CompletionAPIBackgroundTask"
                            THEN "context" ELSE "request",
                     !.request.api_token = TaskArgs(t).api_token]]
    /\ UiUnchanged
    /\ UNCHANGED <<filterVars, pathVars, collectVars, configVars>>

\* get_completion evaluates self.context_provider.get_context()
GetContext(t) ==
    /\ tasks[t].kind = "CompletionAPIBackgroundTask"
    /\ tasks[t].pc = "context"
    /\ tasks' = [tasks EXCEPT ![t] =
           AfterIterFiles(@, TaskArgs(t).context_provider, "request")]
    /\ UNCHANGED openai_api_key
    /\ UiUnchanged
    /\ UNCHANGED <<filterVars, pathVars, collectVars, configVars>>

\* openai.ChatCompletion.create(...) returns a response or raises
CreateCompletion(t) ==
    /\ tasks[t].kind = "CompletionAPIBackgroundTask"
    /\ tasks[t].pc = "request"
    /\ \E ok \in BOOLEAN :
          tasks' = [tasks EXCEPT ![t] =
              [@ EXCEPT !.pc = "finished",
                        !.request = [@ EXCEPT
                            !.sent = TRUE,
                            !.api_key = openai_api_key,
                            !.model = TaskArgs(t).model,
                            !.prompt = TaskArgs(t).prompt,
                            !.max_tokens = TaskArgs(t).max_tokens],
                        !.value = IF ok THEN <<<<"completion">>>> ELSE <<>>,
                        !.raised = IF ok THEN "" ELSE "APIError"]]
    /\ UNCHANGED openai_api_key
    /\ UiUnchanged
    /\ UNCHANGED <<filterVars, pathVars, collectVars, configVars>>

\* openai.Model.list() returns the models or raises; the list comprehension
\* keeps the known families
ModelList(t) ==
    /\ tasks[t].kind \in {"ModelProviderBackgroundTask", "ModelProviderThread"}
    /\ tasks[t].pc = "request"
    /\ \E ok \in BOOLEAN :
          tasks' = [tasks EXCEPT ![t] =
              [@ EXCEPT !.pc = "finished",
                        !.request = [@ EXCEPT !.sent = TRUE,
                                              !.api_key = openai_api_key],
                        !.value = IF ok THEN ListModels(ServiceModels)
                                  ELSE <<>>,
                        !.raised = IF ok THEN "" ELSE "APIError"]]
    /\ UNCHANGED openai_api_key
    /\ UiUnchanged
    /\ UNCHANGED <<filterVars, pathVars, collectVars, configVars>>

\* FileProviderThread.run builds the list from provider.iter_files()
CollectFiles(t) ==
    /\ tasks[t].kind = "FileProviderThread"
    /\ tasks[t].pc = "start"
    /\ tasks' = [tasks EXCEPT ![t] =
           AfterIterFiles(@, TaskArgs(t).context_provider, "finished")]
    /\ UNCHANGED openai_api_key
    /\ UiUnchanged
    /\ UNCHANGED <<filterVars, pathVars, collectVars, configVars>>

\* slip: the except clause does not return, the error record is followed by
\* a result record
Put_NoReturn(t) ==
    /\ tasks[t].pc = "finished"
    /\ tasks' = [tasks EXCEPT ![t] =
           [@ EXCEPT !.pc = "done",
                     !.queue = IF tasks[t].raised # ""
                               THEN @ \o <<RunOutcome(tasks[t]),
                                           ResultDict(tasks[t].value, 0)>>
                               ELSE Append(@, RunOutcome(tasks[t])),
                     !.puts = IF tasks[t].raised # "" THEN @ + 2 ELSE @ + 1]]
    /\ UNCHANGED openai_api_key
    /\ UiUnchanged
    /\ UNCHANGED <<filterVars, pathVars, collectVars, configVars>>

\* the result_queue.put of run(), after the unit of work returned or raised
Put(t) ==
    /\ tasks[t].pc = "finished"
    /\ tasks' = [tasks EXCEPT ![t] =
           [@ EXCEPT !.pc = "done",
                     !.queue = Append(@, RunOutcome(tasks[t])),
                     !.puts = @ + 1]]
    /\ UNCHANGED openai_api_key
    /\ UiUnchanged
    /\ UNCHANGED <<filterVars, pathVars, collectVars, configVars>>

\* slip: the poll that finds the queue empty does not call after() again
PollEmpty_NoReschedule(t) ==
    /\ tasks[t].poll
    /\ tasks[t].queue = <<>>
    /\ tasks' = [tasks EXCEPT ![t].poll = FALSE]
    /\ UNCHANGED openai_api_key
    /\ UiUnchanged
    /\ UNCHANGED <<filterVars, pathVars, collectVars, configVars>>

\* a poll that finds result_queue.empty(): _check_result and _check_queue
\* call after() again
PollEmpty(t) ==
    /\ tasks[t].poll
    /\ tasks[t].queue = <<>>
    /\ tasks' = [tasks EXCEPT ![t].poll = TRUE]
    /\ UNCHANGED openai_api_key
    /\ UiUnchanged
    /\ UNCHANGED <<filterVars, pathVars, collectVars, configVars>>

\* slip: after() is called again although the record was handled
Deliver_KeepsPolling(task, handler) ==
    [task EXCEPT !.queue = Tail(@), !.gets = @ + 1, !.poll = TRUE,
                 !.handler = handler, !.handled = @ + 1,
                 !.delivered = Head(task.queue)]

\* the thread object after result_queue.get() and the call of a handler
Deliver(task, handler) ==
    [task EXCEPT !.queue = Tail(@), !.gets = @ + 1, !.poll = FALSE,
                 !.handler = handler, !.handled = @ + 1,
                 !.delivered = Head(task.queue)]

\* _check_result of a ModelProviderBackgroundTask gets a result:
\* update_models_list
CheckResultModels(t) ==
    /\ tasks[t].kind = "ModelProviderBackgroundTask"
    /\ tasks[t].poll /\ tasks[t].queue # <<>>
    /\ CheckResultHandler(Head(tasks[t].queue), TRUE) = "on_success"
    /\ tasks' = [tasks EXCEPT ![t] = Deliver(@, "on_success")]
    /\ settings' = [settings EXCEPT !.selected_model = <<>>]
    /\ u_models' = PySorted(Head(tasks[t].queue).result)
    /\ Enable
    /\ UNCHANGED <<edits, openai_api_key, u_filelist, u_total_tokens,
                   u_messages, u_completions>>
    /\ UNCHANGED <<filterVars, pathVars, collectVars, configVars>>

\* _check_result of a CompletionAPIBackgroundTask gets a result: the lambda
\* of generate opens a CompletionDialog
CheckResultCompletion(t) ==
    /\ tasks[t].kind = "CompletionAPIBackgroundTask"
    /\ tasks[t].poll /\ tasks[t].queue # <<>>
    /\ CheckResultHandler(Head(tasks[t].queue), TRUE) = "on_success"
    /\ tasks' = [tasks EXCEPT ![t] = Deliver(@, "on_success")]
    /\ u_completions' = u_completions + 1
    /\ UNCHANGED <<settings, edits, openai_api_key, u_progress, u_dialogs,
                   u_filelist, u_total_tokens, u_models, u_messages>>
    /\ UNCHANGED <<filterVars, pathVars, collectVars, configVars>>

\* _check_result gets an error record: show_background_task_error
CheckResultError(t) ==
    /\ tasks[t].kind \in BackgroundTaskKinds
    /\ tasks[t].poll /\ tasks[t].queue # <<>>
    /\ CheckResultHandler(Head(tasks[t].queue), TRUE) = "on_error"
    /\ tasks' = [tasks EXCEPT ![t] = Deliver(@, "on_error")]
    /\ Enable
    /\ u_messages' = u_messages \cup
           {<<Head(tasks[t].queue).error, Head(tasks[t].queue).exception>>}
    /\ UNCHANGED <<settings, edits, openai_api_key, u_filelist,
                   u_total_tokens, u_models, u_completions>>
    /\ UNCHANGED <<filterVars, pathVars, collectVars, configVars>>

\* _check_queue gets the result of a scan
CheckQueueResult(t) ==
    /\ tasks[t].kind = "FileProviderThread"
    /\ tasks[t].poll /\ tasks[t].queue # <<>>
    /\ Head(tasks[t].queue).kind # "error"
    /\ tasks' = [tasks EXCEPT ![t] = Deliver(@, "on_success")]
    /\ u_total_tokens' = Head(tasks[t].queue).total_tokens
    /\ u_filelist' = u_filelist \o Head(tasks[t].queue).result
    /\ Enable
    /\ UNCHANGED <<settings, edits, openai_api_key, u_models, u_messages,
                   u_completions>>
    /\ UNCHANGED <<filterVars, pathVars, collectVars, configVars>>

\* slip: _check_queue calls result_queue.get() without testing empty(), and
\* the main loop waits in get() when the scan has not ended
CheckQueueError_GetsWithoutTest(t) ==
    /\ tasks[t].kind = "FileProviderThread"
    /\ tasks[t].poll
    /\ IF tasks[t].queue = <<>>
       THEN /\ tasks' = [tasks EXCEPT ![t] = [@ EXCEPT !.gets = @ + 1,
                                                       !.poll = FALSE]]
            /\ UNCHANGED <<u_progress, u_dialogs, u_messages>>
       ELSE /\ Head(tasks[t].queue).kind = "error"
            /\ tasks' = [tasks EXCEPT ![t] = Deliver(@, "showerror")]
            /\ Enable
            /\ u_messages' = u_messages \cup
                   {<<Head(tasks[t].queue).error,
                      Head(tasks[t].queue).exception>>}
    /\ UNCHANGED <<settings, edits, openai_api_key, u_filelist,
                   u_total_tokens, u_models, u_completions>>
    /\ UNCHANGED <<filterVars, pathVars, collectVars, configVars>>

\* _check_queue gets the error of a scan
CheckQueueError(t) ==
    /\ tasks[t].kind = "FileProviderThread"
    /\ tasks[t].poll /\ tasks[t].queue # <<>>
    /\ Head(tasks[t].queue).kind = "error"
    /\ tasks' = [tasks EXCEPT ![t] = Deliver(@, "showerror")]
    /\ Enable
    /\ u_messages' = u_messages \cup
           {<<Head(tasks[t].queue).error, Head(tasks[t].queue).exception>>}
    /\ UNCHANGED <<settings, edits, openai_api_key, u_filelist,
                   u_total_tokens, u_models, u_completions>>
    /\ UNCHANGED <<filterVars, pathVars, collectVars, configVars>>

\* what the worker thread of task t can do next
WorkerStep(t) ==
    \/ SetApiKey(t)
    \/ GetContext(t)
    \/ CreateCompletion(t)
    \/ ModelList(t)
    \/ CollectFiles(t)
    \/ Put(t)

\* the poll of task t that takes the record from the queue
ConsumerStep(t) ==
    \/ CheckResultModels(t)
    \/ CheckResultCompletion(t)
    \/ CheckResultError(t)
    \/ CheckQueueResult(t)
    \/ CheckQueueError(t)

\* the settings the user changes between operations in Spec and LiveSpec
EditedSettings == {"openai_api_token", "skip_unreadable"}

\* any number of operations up to MaxTasks is outstanding at a time
Next ==
    \/ SetSetting(EditedSettings)
    \/ Scan(MaxTasks)
    \/ RefreshModels(MaxTasks)
    \/ RefreshModelsNoToken
    \/ Generate(MaxTasks)
    \/ GenerateRejected
    \/ StartModelProviderThread(MaxTasks)
    \/ \E t \in Tasks : SetApiKey(t)
    \/ \E t \in Tasks : GetContext(t)
    \/ \E t \in Tasks : CreateCompletion(t)
    \/ \E t \in Tasks : ModelList(t)
    \/ \E t \in Tasks : CollectFiles(t)
    \/ \E t \in Tasks : Put(t)
    \/ \E t \in Tasks : PollEmpty(t)
    \/ \E t \in Tasks : CheckResultModels(t)
    \/ \E t \in Tasks : CheckResultCompletion(t)
    \/ \E t \in Tasks : CheckResultError(t)
    \/ \E t \in Tasks : CheckQueueResult(t)
    \/ \E t \in Tasks : CheckQueueError(t)

Spec == InitUi /\ [][Next]_vars

(***************************************************************************)
(* SpecUi: the operations the interface offers; it creates no              *)
(* ModelProviderThread                                                     *)
(***************************************************************************)

NextUi ==
    \/ SetSetting(EditedSettings)
    \/ Scan(MaxTasks)
    \/ RefreshModels(MaxTasks)
    \/ RefreshModelsNoToken
    \/ Generate(MaxTasks)
    \/ GenerateRejected
    \/ \E t \in Tasks : WorkerStep(t)
    \/ \E t \in Tasks : PollEmpty(t)
    \/ \E t \in Tasks : ConsumerStep(t)

SpecUi == InitUi /\ [][NextUi]_vars

(***************************************************************************)
(* SpecSettings: the user changes any setting while one operation is       *)
(* outstanding                                                             *)
(***************************************************************************)

NextSettings ==
    \/ SetSetting(DOMAIN SettingValues)
    \/ Scan(MaxSettingsTasks)
    \/ RefreshModels(MaxSettingsTasks)
    \/ Generate(MaxSettingsTasks)
    \/ RefreshModelsNoToken
    \/ GenerateRejected
    \/ ScanRaises
    \/ GenerateRaises
    \/ \E t \in Tasks : SetApiKey(t)
    \/ \E t \in Tasks : GetContext(t)
    \/ \E t \in Tasks : CreateCompletion(t)
    \/ \E t \in Tasks : ModelList(t)
    \/ \E t \in Tasks : CollectFiles(t)
    \/ \E t \in Tasks : Put(t)
    \/ \E t \in Tasks : PollEmpty(t)
    \/ \E t \in Tasks : CheckResultModels(t)
    \/ \E t \in Tasks : CheckResultCompletion(t)
    \/ \E t \in Tasks : CheckResultError(t)
    \/ \E t \in Tasks : CheckQueueResult(t)
    \/ \E t \in Tasks : CheckQueueError(t)

SpecSettings == InitUi /\ [][NextSettings]_vars

(***************************************************************************)
(* LiveSpec: every started thread keeps being scheduled and the main loop  *)
(* keeps running the callbacks registered with after()                     *)
(***************************************************************************)

NextLive ==
    \/ SetSetting(EditedSettings)
    \/ Scan(MaxLiveTasks)
    \/ RefreshModels(MaxLiveTasks)
    \/ Generate(MaxLiveTasks)
    \/ \E t \in Tasks : WorkerStep(t)
    \/ \E t \in Tasks : PollEmpty(t)
    \/ \E t \in Tasks : ConsumerStep(t)

Fairness ==
    \A t \in 1..MaxLiveTasks :
        /\ WF_vars(t \in Tasks /\ WorkerStep(t))
        /\ WF_vars(t \in Tasks /\ ConsumerStep(t))

LiveSpec == InitUi /\ [][NextLive]_vars /\ Fairness

(***************************************************************************)
(* SpecConfig: Configuration objects of two processes and an editor work   *)
(* on one config.json                                                      *)
(***************************************************************************)

InitConfig ==
    /\ cfg_exists \in BOOLEAN
    /\ cfg_file \in IF cfg_exists
                    THEN {EmptyDict,
                          [openai_model |-> <<"gpt-", "4">>,
                           presets |-> <<"p">>]}
                    ELSE {EmptyDict}
    /\ cfg_made = {}
    /\ cfg_config = [i \in Instances |-> EmptyDict]
    /\ cfg_last = NoOperation
    /\ FilterIdle
    /\ PathsIdle
    /\ CollectIdle
    /\ UiIdle

\* Configuration._load
Load == IF cfg_exists THEN cfg_file ELSE EmptyDict

\* Configuration.__init__
ConfigurationInit(i) ==
    /\ i \notin cfg_made
    /\ cfg_made' = cfg_made \cup {i}
    /\ cfg_config' = [cfg_config EXCEPT ![i] = Load]
    /\ cfg_last' = [NoOperation EXCEPT !.op = "__init__", !.inst = i,
                                       !.before = Load]
    /\ UNCHANGED <<cfg_exists, cfg_file>>
    /\ UNCHANGED <<filterVars, pathVars, collectVars, uiVars>>

\* Configuration.__getattr__
GetAttr(i, name) ==
    /\ i \in cfg_made
    /\ cfg_last' = [op |-> "__getattr__", inst |-> i, key |-> name,
                    value |-> Load[name], before |-> Load]
    /\ UNCHANGED <<cfg_exists, cfg_file, cfg_made, cfg_config>>
    /\ UNCHANGED <<filterVars, pathVars, collectVars, uiVars>>

\* the property Configuration.config
ConfigProperty(i) ==
    /\ i \in cfg_made
    /\ cfg_config' = [cfg_config EXCEPT ![i] = Load]
    /\ cfg_last' = [NoOperation EXCEPT !.op = "config", !.inst = i,
                                       !.before = Load]
    /\ UNCHANGED <<cfg_exists, cfg_file, cfg_made>>
    /\ UNCHANGED <<filterVars, pathVars, collectVars, uiVars>>

\* Configuration.__setattr__ for a key of the file: the entry of _config is
\* set and _save dumps _config
SetAttr(i, name, value) ==
    LET config == [cfg_config[i] EXCEPT ![name] = value]
    IN  /\ i \in cfg_made
        /\ cfg_config' = [cfg_config EXCEPT ![i] = config]
        /\ cfg_file' = config
        /\ cfg_exists' = TRUE
        /\ cfg_last' = [op |-> "__setattr__", inst |-> i, key |-> name,
                        value |-> value, before |-> Load]
        /\ UNCHANGED cfg_made
        /\ UNCHANGED <<filterVars, pathVars, collectVars, uiVars>>

\* MainFrame.update_config, called by the trace of selected_model with a
\* value of the combobox
UpdateConfig(i, model) ==
    /\ model \in ConfigValues.openai_model
    /\ SetAttr(i, "openai_model", model)

\* the dict {**(configuration.presets or {}), preset_name: {...}}
MergedPresets(name) ==
    LET presets == IF Load.presets = None THEN <<>> ELSE Load.presets
    IN  IF \E n \in 1..Len(presets) : presets[n] = name THEN presets
        ELSE Append(presets, name)

\* MainFrame.save_preset with a name
SavePreset(i, name) ==
    /\ MergedPresets(name) \in ConfigValues.presets
    /\ SetAttr(i, "presets", MergedPresets(name))

\* the file is written by something else than a Configuration
ExternalEdit(name, value) ==
    /\ cfg_file' = [Load EXCEPT ![name] = value]
    /\ cfg_file' # cfg_file
    /\ cfg_exists' = TRUE
    /\ cfg_last' = [op |-> "edit", inst |-> 0, key |-> name,
                    value |-> value, before |-> Load]
    /\ UNCHANGED <<cfg_made, cfg_config>>
    /\ UNCHANGED <<filterVars, pathVars, collectVars, uiVars>>

NextConfig ==
    \/ \E i \in Instances : ConfigurationInit(i)
    \/ \E i \in Instances, name \in ConfigKeys : GetAttr(i, name)
    \/ \E i \in Instances : ConfigProperty(i)
    \/ \E i \in Instances, model \in ConfigValues.openai_model :
          UpdateConfig(i, model)
    \/ \E i \in Instances, name \in PresetNames : SavePreset(i, name)
    \/ \E name \in ConfigKeys : \E value \in ConfigValues[name] :
          ExternalEdit(name, value)

SpecConfig == InitConfig /\ [][NextConfig]_vars

(***************************************************************************)
(* Properties of the filter (SpecFilter)                                   *)
(***************************************************************************)

Absent(src) == src = None \/ src = <<>>

\* C1: _file_matches accepts a path if and only if all five checks pass:
\* (1) allow_hidden or the base name does not start with ".", (2) name
\* whitelist absent or matching the base name, (3) name blacklist absent or
\* not matching the base name, (4) path whitelist absent or matching the full
\* path string, (5) path blacklist absent or not matching the full path
\* string; the call returns at the first check that fails, an absent pattern
\* (None or "") never rejects, and a hidden file is rejected without
\* allow_hidden whatever the whitelists are.
C1_FileMatchesIffAllChecks ==
    f_pc = "ret" =>
        LET name  == PathName(f_path)
            full  == PathStr(f_path)
            pass1 == f_args.allow_hidden \/ name[1] # "."
            pass2 == \/ Absent(f_args.regex_whitelist)
                     \/ ReSearch(f_args.regex_whitelist, name)
            pass3 == \/ Absent(f_args.regex_blacklist)
                     \/ ~ReSearch(f_args.regex_blacklist, name)
            pass4 == \/ Absent(f_args.regex_path_whitelist)
                     \/ ReSearch(f_args.regex_path_whitelist, full)
            pass5 == \/ Absent(f_args.regex_path_blacklist)
                     \/ ~ReSearch(f_args.regex_path_blacklist, full)
        IN  /\ f_ret = (pass1 /\ pass2 /\ pass3 /\ pass4 /\ pass5)
            /\ f_line = (IF ~pass1 THEN 48 ELSE IF ~pass2 THEN 50
                         ELSE IF ~pass3 THEN 52 ELSE IF ~pass4 THEN 54
                         ELSE IF ~pass5 THEN 56 ELSE 57)
            /\ (~f_args.allow_hidden /\ name[1] = ".") => ~f_ret

\* a path accepted although all four patterns are set
C1_Witness ==
    /\ f_pc = "ret" /\ f_ret
    /\ ~Absent(f_args.regex_whitelist) /\ ~Absent(f_args.regex_blacklist)
    /\ ~Absent(f_args.regex_path_whitelist)
    /\ ~Absent(f_args.regex_path_blacklist)

(***************************************************************************)
(* Properties of iter_files and its consumers (SpecCollect)                *)
(***************************************************************************)

\* the files that lie in a descended directory and pass the filter
Qualifying == IterFilePaths(c_self, c_self.directory)

\* the qualifying files the loop of iter_files is through with
Handled == SubSeq(Qualifying, 1, Len(Qualifying) - Len(c_todo))

Iterating == c_pc \in {"iter", "raised", "done"}

EmptyTrimmed(path) ==
    \A i \in 1..Len(c_fs[path].text) : IsSpace(c_fs[path].text[i])

ShouldEmit(path) ==
    c_fs[path].decodes /\ ~(c_self.skip_empty /\ EmptyTrimmed(path))

EmittedPaths == [i \in 1..Len(c_out) |-> c_out[i].path]

\* C2: when reading a file raises a decode error, with skip_unreadable the
\* file is omitted and every later qualifying file is still emitted; without
\* skip_unreadable the collection aborts with the error at that file, nothing
\* is emitted past it and the records emitted before it stand.
C2_DecodeErrorPolicy ==
    Iterating =>
        /\ EmittedPaths = SelectSeq(Handled, ShouldEmit)
        /\ c_self.skip_unreadable => c_pc # "raised"
        /\ c_pc = "raised" =>
              /\ ~c_fs[Head(c_todo)].decodes
              /\ \A i \in 1..Len(Handled) : c_fs[Handled[i]].decodes
              /\ c_ret.kind \in {"none", "error"} /\ c_ret.result = <<>>
        /\ c_pc = "done" =>
              /\ c_todo = <<>>
              /\ ~c_self.skip_unreadable =>
                    \A i \in 1..Len(Qualifying) : c_fs[Qualifying[i]].decodes

\* the collection aborted after it had emitted a record and before it came
\* to a later qualifying file
C2_Witness ==
    /\ c_pc = "raised"
    /\ c_out # <<>>
    /\ Len(c_todo) >= 2

\* with skip_unreadable an undecodable file is left out and a later file is
\* emitted
C2_SkipCase ==
    /\ c_pc = "done" /\ c_self.skip_unreadable
    /\ \E i \in 1..Len(Qualifying) : \E j \in (i + 1)..Len(Qualifying) :
          /\ ~c_fs[Qualifying[i]].decodes
          /\ \E k \in 1..Len(c_out) : c_out[k].path = Qualifying[j]

\* C3: a qualifying file whose content is empty after trimming is omitted
\* when skip_empty is set and emitted with token count 0 when it is not; a
\* file with other content is emitted whatever skip_empty is.
C3_EmptyFilePolicy ==
    Iterating =>
        \A i \in 1..Len(Handled) :
            LET path == Handled[i]
                at   == {k \in 1..Len(c_out) : c_out[k].path = path}
            IN  c_fs[path].decodes =>
                    IF EmptyTrimmed(path)
                    THEN /\ c_self.skip_empty => at = {}
                         /\ ~c_self.skip_empty =>
                               /\ Cardinality(at) = 1
                               /\ \A k \in at : c_out[k].tokens = 0
                    ELSE /\ Cardinality(at) = 1
                         /\ \A k \in at : c_out[k].tokens > 0

\* a file holding only white space was emitted with 0 tokens
C3_Witness ==
    /\ c_pc = "done" /\ ~c_self.skip_empty
    /\ \E k \in 1..Len(c_out) :
          /\ c_out[k].tokens = 0
          /\ c_fs[c_out[k].path].text # <<>>

\* the token counts of the records emitted so far, added up from the last one
RECURSIVE EmittedTokens(_)
EmittedTokens(n) ==
    IF n = 0 THEN 0 ELSE EmittedTokens(n - 1) + c_out[n].tokens

\* C4: the aggregate token count of a run (the value of calculate_tokens, the
\* total_tokens of FileProviderThread) is the sum of the token counts of the
\* records the run emitted, each counted once; skipped files add nothing.
C4_TotalIsSumOfEmitted ==
    c_ret.kind \in {"return", "result"} =>
        /\ c_ret.total_tokens = EmittedTokens(Len(c_out))
        /\ c_ret.kind = "result" =>
              /\ Len(c_ret.result) = Len(c_out)
              /\ \A i \in 1..Len(c_out) :
                    /\ c_ret.result[i].tokens = c_out[i].tokens
                    /\ c_ret.result[i].path = c_out[i].path

\* FileProviderThread summed three records of different sizes while a
\* qualifying file was skipped
C4_Witness ==
    /\ c_ret.kind = "result"
    /\ Len(c_out) = 3
    /\ Len(Qualifying) > 3
    /\ c_ret.total_tokens >= 4
    /\ \E i, j \in 1..Len(c_out) : c_out[i].tokens # c_out[j].tokens

(***************************************************************************)
(* Properties of the background tasks (Spec, LiveSpec, SpecSettings)       *)
(***************************************************************************)

\* the threads whose queue the interface polls
Polled(t) == tasks[t].kind # "ModelProviderThread"

\* every record that was ever put in the queue of task t
Outcomes(t) ==
    (IF tasks[t].delivered.kind = "none" THEN <<>>
     ELSE <<tasks[t].delivered>>) \o tasks[t].queue

\* C5: every run of a background thread puts exactly one record in its
\* result queue, a success record or a failure record and never a second
\* one: nothing is put before the unit of work ends, one record is there once
\* run() has ended, and it is a failure exactly if the unit of work raised.
C5_ExactlyOneOutcome ==
    \A t \in Tasks :
        /\ tasks[t].puts <= 1
        /\ Len(Outcomes(t)) = tasks[t].puts
        /\ tasks[t].pc = "done" <=> tasks[t].puts = 1
        /\ \A i \in 1..Len(Outcomes(t)) :
              /\ Outcomes(t)[i].kind \in {"result", "error"}
              /\ Outcomes(t)[i].kind = "error" <=> tasks[t].raised # ""

\* a thread of each of the three classes has ended, one of them with a
\* failure record
C5_Witness ==
    /\ Len(tasks) = 2
    /\ \A t \in Tasks : tasks[t].pc = "done" /\ tasks[t].puts = 1
    /\ tasks[1].kind = "ModelProviderThread" /\ tasks[1].raised # ""
    /\ tasks[2].kind = "FileProviderThread" /\ tasks[2].raised = ""

\* C6: a handler is invoked only after the unit of work of the worker has
\* returned or raised, and the record it is given is the final outcome of
\* that unit of work, never an interim one.
C6_HandlerAfterCompletion ==
    \A t \in Tasks :
        tasks[t].handled > 0 =>
            /\ tasks[t].pc \in {"finished", "done"}
            /\ tasks[t].delivered.kind = "error" <=> tasks[t].raised # ""
            /\ tasks[t].delivered.kind = "result" =>
                  tasks[t].delivered.result = tasks[t].value

\* a handler ran for one task while the worker of another one was still busy
C6_Witness ==
    \E t, u \in Tasks :
        /\ tasks[t].handled = 1 /\ tasks[t].delivered.result # <<>>
        /\ Polled(u) /\ tasks[u].pc \notin {"finished", "done"}

\* C7: when the unit of work raises, the record the consumer gets is a
\* failure record carrying that exception, the error path runs (on_error, or
\* the error dialog) and shows it, and neither a success record is produced
\* nor the success handler invoked for that task.
C7_FailureReachesErrorPath ==
    \A t \in Tasks :
        tasks[t].raised # "" =>
            /\ \A i \in 1..Len(Outcomes(t)) :
                  /\ Outcomes(t)[i].kind = "error"
                  /\ tasks[t].raised \in
                        {Outcomes(t)[i].exception, Outcomes(t)[i].error}
            /\ tasks[t].handler # "on_success"
            /\ tasks[t].handled > 0 =>
                  /\ tasks[t].handler \in {"on_error", "showerror"}
                  /\ tasks[t].delivered.exception = tasks[t].raised
                  /\ <<"Unexpected error occurred", tasks[t].raised>>
                        \in u_messages

\* the failure of a completion request went through on_error
C7_Witness ==
    \E t \in Tasks :
        /\ tasks[t].kind = "CompletionAPIBackgroundTask"
        /\ tasks[t].raised = "APIError"
        /\ tasks[t].handler = "on_error"

\* C8: under fair scheduling of the workers and of the timer callbacks, every
\* started task whose unit of work returns or raises eventually has its
\* outcome in the queue and one handler invoked for it.
C8_EveryTaskIsDelivered ==
    \A t \in 1..MaxLiveTasks :
        (t \in Tasks) ~>
            (t \in Tasks /\ tasks[t].puts = 1 /\ tasks[t].handled = 1)

\* a task was delivered
C8_Witness ==
    \E t \in Tasks : tasks[t].puts = 1 /\ tasks[t].handled = 1

\* C9: at most one handler invocation per task, and after the delivery no
\* poll is pending and no second get is made on the queue of the task.
C9_DeliveredAtMostOnce ==
    \A t \in Tasks :
        /\ tasks[t].handled <= 1
        /\ tasks[t].gets <= 1
        /\ tasks[t].handled = tasks[t].gets
        /\ tasks[t].handled = 1 => ~tasks[t].poll
        /\ (Polled(t) /\ tasks[t].handled = 0) => tasks[t].poll

\* two tasks were delivered, one to the success and one to the error path
C9_Witness ==
    /\ Len(tasks) = 2
    /\ \A t \in Tasks : tasks[t].handled = 1 /\ tasks[t].queue = <<>>
    /\ tasks[1].handler = "on_success"
    /\ tasks[2].handler # "on_success"

\* the pattern a ContextProvider holds for the text of an entry
ExpectedPattern(text) == IF text = <<>> THEN None ELSE text

\* C10: what a task scans and sends is what the settings were when scan(),
\* refresh_models() or generate() created it, whatever the user changes
\* afterwards: project path, the four patterns, the recursion, hidden
\* sub-directory and skip flags, the token the task installs for its call,
\* model, prompt and max tokens.
C10_SettingsCapturedAtSubmission ==
    \A t \in Tasks :
        LET st  == tasks[t].submitted
            req == tasks[t].request
            cp  == tasks[t].request.context_provider
        IN  /\ req.scanned =>
                  /\ cp.directory = st.project_path
                  /\ cp.regex_whitelist = ExpectedPattern(st.regex_whitelist)
                  /\ cp.regex_blacklist = ExpectedPattern(st.regex_blacklist)
                  /\ cp.regex_path_whitelist =
                        ExpectedPattern(st.regex_path_whitelist)
                  /\ cp.regex_path_blacklist =
                        ExpectedPattern(st.regex_path_blacklist)
                  /\ cp.recursive = st.recursive
                  /\ cp.allow_hidden_subdirectories =
                        st.allow_hidden_subdirectories
                  /\ cp.skip_unreadable = st.skip_unreadable
                  /\ cp.skip_empty = st.skip_empty_files
            /\ (tasks[t].kind # "FileProviderThread" /\ tasks[t].pc # "start")
                  => req.api_token = st.openai_api_token
            /\ req.sent =>
                  /\ tasks[t].kind = "CompletionAPIBackgroundTask" =>
                        /\ req.model = st.selected_model
                        /\ req.prompt = st.prompt
                        /\ req.max_tokens = st.max_tokens

\* a completion request was sent after the user had changed a setting that
\* the task had read
C10_Witness ==
    \E t \in Tasks :
        /\ tasks[t].kind = "CompletionAPIBackgroundTask"
        /\ tasks[t].request.scanned /\ tasks[t].request.sent
        /\ settings # tasks[t].submitted

(***************************************************************************)
(* The credential of concurrent tasks (SpecUi)                             *)
(***************************************************************************)

\* C11: in every interleaving of concurrently running tasks, the remote call
\* of each task is made with the credential the task was submitted with,
\* never with the credential of another task.
C11_CallUsesOwnCredential ==
    \A t \in Tasks :
        tasks[t].request.sent =>
            tasks[t].request.api_key = tasks[t].submitted.openai_api_token

(***************************************************************************)
(* Preconditions of generate and refresh_models (SpecSettings)             *)
(***************************************************************************)

\* the error dialogs of the three checks
PreconditionMessages ==
    {<<"Error", "OpenAI API token is not set">>,
     <<"Error", "Model is not selected">>,
     <<"Error", "Prompt is empty">>}

\* C12: with an empty credential no model listing and no completion thread is
\* started, with no selected model or an empty prompt no completion thread is
\* started; the step that returns at a failed check shows the error dialog of
\* that check in the same step, starts no thread, registers no poll and
\* leaves the progress dialog state as it was.
C12_PreconditionFailureStartsNothing ==
    [][/\ Len(tasks') > Len(tasks) =>
             LET new == tasks'[Len(tasks')]
             IN  /\ new.kind \in BackgroundTaskKinds =>
                       settings.openai_api_token # ""
                 /\ new.kind = "CompletionAPIBackgroundTask" =>
                       /\ settings.selected_model # <<>>
                       /\ settings.prompt # ""
       /\ (GenerateRejected \/ RefreshModelsNoToken) =>
             /\ u_messages' \cap PreconditionMessages # {}
             /\ UNCHANGED <<tasks, u_progress, u_dialogs>>
       /\ (u_messages' \ u_messages) \cap PreconditionMessages # {} =>
             UNCHANGED <<tasks, u_progress, u_dialogs>>]_vars

\* generate was called with an empty prompt: the dialog is shown, no thread
\* exists and no progress dialog is open
C12_Witness ==
    /\ <<"Error", "Prompt is empty">> \in u_messages
    /\ settings.prompt = ""
    /\ tasks = <<>>
    /\ u_progress = 0

(***************************************************************************)
(* Properties of the directory walk (SpecPaths, LivePaths)                 *)
(***************************************************************************)

IsHidden(name) == StartsWith(name, <<".">>)

\* the directory a path lies in
Parent(path) == SubSeq(path, 1, Len(path) - 1)

\* the sub-directories of the tree the scan was started on
SubDirs == DOMAIN p_tree \ {p_self.directory}

\* the regular files of the tree
TreeFiles ==
    UNION {{Append(d, p_tree[d][i].name) :
               i \in {j \in 1..Len(p_tree[d]) : ~p_tree[d][j].is_dir}} :
           d \in DOMAIN p_tree}

\* C13: a sub-directory is descended into only if recursive is set, a hidden
\* one only if allow_hidden_subdirectories is set as well, and once the scan
\* is over every sub-directory of a descended directory that passes these
\* two tests was descended into, whatever allow_hidden is; with recursive
\* and allow_hidden_subdirectories set and allow_hidden unset the yielded
\* files of a descended directory are its files that are not hidden and that
\* the patterns accept.
C13_DescendPolicy ==
    /\ \A d \in p_entered \ {p_self.directory} :
          /\ p_self.recursive
          /\ IsHidden(PathName(d)) => p_self.allow_hidden_subdirectories
    /\ p_pc = "done" =>
          \A d \in SubDirs :
              d \in p_entered <=>
                  /\ Parent(d) \in p_entered
                  /\ p_self.recursive
                  /\ p_self.allow_hidden_subdirectories
                         \/ ~IsHidden(PathName(d))
    /\ (/\ p_pc = "done" /\ p_self.recursive
        /\ p_self.allow_hidden_subdirectories /\ ~p_self.allow_hidden) =>
          \A f \in TreeFiles :
              Parent(f) \in p_entered =>
                  /\ IsHidden(PathName(f)) => f \notin Range(p_out)
                  /\ (~IsHidden(PathName(f))
                      /\ (p_self.regex_whitelist = None
                          \/ ReSearch(p_self.regex_whitelist, PathName(f))))
                        => f \in Range(p_out)

\* with recursive and allow_hidden_subdirectories set and allow_hidden unset
\* a file of a hidden directory was yielded and a hidden file of the same
\* directory was not
C13_Witness ==
    /\ p_pc = "done"
    /\ p_self.recursive /\ p_self.allow_hidden_subdirectories
    /\ ~p_self.allow_hidden
    /\ \E f, g \in TreeFiles :
          /\ Parent(f) = Parent(g) /\ IsHidden(PathName(Parent(f)))
          /\ ~IsHidden(PathName(f)) /\ f \in Range(p_out)
          /\ IsHidden(PathName(g)) /\ g \notin Range(p_out)

\* the directories a scan from p_self.directory has to descend into
ShouldEnter(d) ==
    /\ Len(d) >= Len(p_self.directory)
    /\ SubSeq(d, 1, Len(p_self.directory)) = p_self.directory
    /\ \A k \in (Len(p_self.directory) + 1)..Len(d) :
          /\ p_self.recursive
          /\ p_self.allow_hidden_subdirectories \/ ~IsHidden(d[k])

\* every path once, and the paths are the accepted files of the descended
\* directories
ExactlyTheAcceptedFiles ==
    /\ \A i, j \in 1..Len(p_out) : p_out[i] = p_out[j] => i = j
    /\ Range(p_out) =
          {f \in TreeFiles : ShouldEnter(Parent(f)) /\ FileMatches(p_self, f)}
    /\ p_tree = FsTree => p_out = IterFilePaths(p_self, p_self.directory)

\* C14: on every tree one invocation of iter_file_paths comes to its end, and
\* what it has yielded then is every accepted file of a descended directory,
\* each exactly once, and nothing else.
C14_TerminatesWithExactlyTheAcceptedFiles ==
    /\ <>(p_pc = "done")
    /\ [](p_pc = "done" => ExactlyTheAcceptedFiles)

\* the scan of the two-file directory with a name whitelist ended with one of
\* the two files
C14_Witness ==
    /\ p_pc = "done"
    /\ p_tree = TreeFlat
    /\ p_self.regex_whitelist = <<".", "p", "y", "$">>
    /\ p_out = <<<<<<"r">>, <<"a", ".", "p", "y">>>>>>

(***************************************************************************)
(* Properties of get_context (SpecCollect)                                 *)
(***************************************************************************)

\* get_context has returned
ContextDone == c_pc = "done" /\ c_consumer = "get_context"

\* the text it returned
ContextOut == c_ret.result

\* how every header line begins
HeaderMark == <<"/", "/", " ", "F", "i", "l", "e", " ", "'">>

\* the positions of the text where a line begins with the header mark
HeaderStarts ==
    {i \in 1..Len(ContextOut) :
        /\ i = 1 \/ ContextOut[i - 1] = "\n"
        /\ i + Len(HeaderMark) - 1 <= Len(ContextOut)
        /\ SubSeq(ContextOut, i, i + Len(HeaderMark) - 1) = HeaderMark}

\* the position of the k-th header line
NthHeader(k) ==
    CHOOSE i \in HeaderStarts : Cardinality({j \in HeaderStarts : j <= i}) = k

\* the header line of the k-th emitted record: its path below the scan root
ExpectedHeader(k) ==
    HeaderMark
        \o PathStr(SubSeq(c_out[k].path, Len(c_self.directory) + 1,
                          Len(c_out[k].path)))
        \o <<"'", "\n">>

\* header line and content of the k-th record stand at the k-th header
BlockAtNthHeader(k) ==
    LET expected == ExpectedHeader(k) \o c_out[k].content
    IN  /\ NthHeader(k) + Len(expected) - 1 <= Len(ContextOut)
        /\ SubSeq(ContextOut, NthHeader(k),
                  NthHeader(k) + Len(expected) - 1) = expected

\* what stands between the content of the k-th record and the next header
Gap(k) ==
    SubSeq(ContextOut,
           NthHeader(k) + Len(ExpectedHeader(k)) + Len(c_out[k].content),
           NthHeader(k + 1) - 1)

\* C15 as it was claimed: between the last character of the content of one
\* file and the header line of the next there are exactly three newlines.
C15_ThreeNewlinesAfterContent ==
    (ContextDone /\ Cardinality(HeaderStarts) = Len(c_out)) =>
        \A k \in 1..(Len(c_out) - 1) : Gap(k) = <<"\n", "\n", "\n">>

\* C15, amended: consecutive blocks are joined by exactly three newlines, and
\* as every block ends with a newline of its own there are exactly four
\* newlines between the content of one file and the header line of the next.
C15_FourNewlinesAfterContent ==
    ContextDone =>
        /\ Cardinality(HeaderStarts) = Len(c_out)
        /\ \A k \in 1..(Len(c_out) - 1) :
              Gap(k) = <<"\n">> \o <<"\n", "\n", "\n">>

\* a text of three blocks, one of them with empty content
C15_Witness ==
    /\ ContextDone
    /\ Len(c_out) = 3
    /\ \E k \in 1..2 : c_out[k].content = <<>>
    /\ \E k \in 1..2 : c_out[k].content # <<>>

\* C16: the text of get_context has one block per emitted record, in the
\* order of emission, and the k-th block names the path of the k-th record
\* relative to the scan root and goes on with the content of that record.
C16_BlocksInEmissionOrder ==
    ContextDone =>
        /\ Cardinality(HeaderStarts) = Len(c_out)
        /\ \A k \in 1..Len(c_out) : BlockAtNthHeader(k)

\* four records with different paths, one in a sub-directory, were rendered
C16_Witness ==
    /\ ContextDone
    /\ Len(c_out) = 4
    /\ \E k \in 1..4 : Len(c_out[k].path) = 3

\* C17: without records get_context returns the empty string; with one record
\* the text has exactly one header line, which names the relative path of the
\* record, and the content of the record follows it immediately.
C17_EmptyAndSingleRecord ==
    ContextDone =>
        /\ c_out = <<>> => ContextOut = <<>>
        /\ Len(c_out) = 1 =>
              /\ HeaderStarts = {1}
              /\ BlockAtNthHeader(1)
              /\ ContextOut = ExpectedHeader(1) \o c_out[1].content \o <<"\n">>

\* one record with content was rendered
C17_Witness ==
    /\ ContextDone
    /\ Len(c_out) = 1
    /\ c_out[1].content # <<>>
    /\ ContextOut # <<>>

\* nothing was emitted and the empty string returned
C17_EmptyCase ==
    ContextDone /\ c_out = <<>> /\ ContextOut = <<>>

(***************************************************************************)
(* The main loop never waits (SpecUi)                                      *)
(***************************************************************************)

\* C18: in every interleaving a callback of the main loop calls
\* result_queue.get() only when the queue of the task holds a record, which
\* get() then returns at once; as long as the queue is empty a poll only
\* registers the next poll.
C18_GetOnlyWhenOutcomeIsThere ==
    [][\A t \in Tasks :
          /\ tasks'[t].gets > tasks[t].gets =>
                /\ tasks[t].queue # <<>>
                /\ tasks'[t].delivered = Head(tasks[t].queue)
                /\ tasks'[t].handled = tasks[t].handled + 1
          /\ (tasks[t].poll /\ tasks[t].queue = <<>>) =>
                /\ tasks'[t].gets = tasks[t].gets
                /\ tasks'[t].poll]_vars

\* one task was delivered while the poll of another one still finds its
\* queue empty
C18_Witness ==
    \E t, u \in Tasks :
        /\ tasks[t].gets = 1
        /\ tasks[u].poll /\ tasks[u].queue = <<>> /\ tasks[u].pc # "done"

(***************************************************************************)
(* Malformed patterns (SpecSettings)                                       *)
(***************************************************************************)

\* a pattern re.compile rejects
Malformed(src) == \E k \in 1..Len(src) : src[k] = "("

\* one of the four pattern entries holds a malformed pattern
MalformedSettings(st) ==
    \/ Malformed(st.regex_whitelist)
    \/ Malformed(st.regex_blacklist)
    \/ Malformed(st.regex_path_whitelist)
    \/ Malformed(st.regex_path_blacklist)

\* C19: a malformed pattern makes the construction of the ContextProvider
\* fail, so no directory is listed and no file read with it: no thread that
\* scans was created from settings with a malformed pattern, and a scan() or
\* generate() called with such settings starts no thread and registers no
\* poll.
C19_MalformedPatternStartsNoScan ==
    /\ [](\A t \in Tasks :
             tasks[t].kind \in {"FileProviderThread",
                                "CompletionAPIBackgroundTask"}
                 => /\ ~MalformedSettings(tasks[t].submitted)
                    /\ \A f \in {"regex_whitelist", "regex_blacklist",
                                 "regex_path_whitelist",
                                 "regex_path_blacklist"} :
                           ~Malformed(tasks[t].args.context_provider[f]))
    /\ [][(MalformedSettings(settings) /\ Len(tasks') > Len(tasks)) =>
             tasks'[Len(tasks')].kind = "ModelProviderBackgroundTask"]_vars

\* scan() was called with a malformed name whitelist: the list was cleared
\* and the progress dialog opened, and there is no thread
C19_Witness ==
    /\ MalformedSettings(settings)
    /\ u_progress < 0
    /\ tasks = <<>>

(***************************************************************************)
(* The models of the selector (SpecUi)                                     *)
(***************************************************************************)

\* the name begins with one of the recognized family prefixes
HasFamilyPrefix(name) ==
    \/ StartsWith(name, <<"code-">>)
    \/ StartsWith(name, <<"text-">>)
    \/ StartsWith(name, <<"gpt-">>)

\* the selector was filled from the answer of the listing service
ModelsExposed ==
    \E t \in Tasks :
        /\ tasks[t].kind = "ModelProviderBackgroundTask"
        /\ tasks[t].handler = "on_success"

\* no entry of the selector is followed by a smaller one
Ascending(list) ==
    \A i, j \in 1..Len(list) : i < j => ~StrLess(list[j], list[i])

\* C20 as it was claimed: the selector holds exactly the identifiers of the
\* service's answer that begin with a recognized family prefix, in ascending
\* order.
C20_IdentifiersWithFamilyPrefix ==
    ModelsExposed =>
        /\ Range(u_models) =
              {ServiceModels[i].id :
                  i \in {j \in 1..Len(ServiceModels) :
                            HasFamilyPrefix(ServiceModels[j].id)}}
        /\ Ascending(u_models)

\* C20, amended: the selector holds exactly the identifiers of the models of
\* the service's answer whose root begins with a recognized family prefix,
\* one entry for each of them, in ascending order.
C20_IdentifiersOfFamilyRoots ==
    ModelsExposed =>
        /\ Range(u_models) =
              {ServiceModels[i].id :
                  i \in {j \in 1..Len(ServiceModels) :
                            HasFamilyPrefix(ServiceModels[j].root)}}
        /\ Len(u_models) =
              Cardinality({j \in 1..Len(ServiceModels) :
                              HasFamilyPrefix(ServiceModels[j].root)})
        /\ Ascending(u_models)

\* the selector was filled; it offers a model whose identifier has no family
\* prefix and leaves out one whose identifier has
C20_Witness ==
    /\ ModelsExposed
    /\ \E i \in 1..Len(u_models) : ~HasFamilyPrefix(u_models[i])
    /\ \E j \in 1..Len(ServiceModels) :
          /\ HasFamilyPrefix(ServiceModels[j].id)
          /\ ServiceModels[j].id \notin Range(u_models)

(***************************************************************************)
(* The progress dialog of one operation (LiveSpec)                         *)
(***************************************************************************)

\* the operation started last had its outcome handled
LastHandled(t) == t = Len(tasks) /\ tasks[t].handled > 0

\* the dialog that disable() opened for operation t is destroyed and
\* MainFrame._progress is None
Reenabled(t) == t \notin u_dialogs /\ u_progress = 0

\* C21: scan, refresh_models and generate re-enable the interface once their
\* outcome has been handled: after the handler of the operation started last
\* has run, on a result as on an error, the progress dialog that disable()
\* opened for it is destroyed and _progress is None.
C21_HandledOperationReenables ==
    \A t \in Tasks : LastHandled(t) => Reenabled(t)

\* the same for every outcome but the result of a completion: the handlers
\* of a scan, of a model listing and of every error call enable()
C21_OtherOutcomesReenable ==
    \A t \in Tasks :
        (/\ LastHandled(t)
         /\ ~(/\ tasks[t].kind = "CompletionAPIBackgroundTask"
              /\ tasks[t].handler = "on_success")) => Reenabled(t)

\* a completion was delivered to the lambda of generate and the progress
\* dialog of that generate is still open
C21_Witness ==
    \E t \in Tasks :
        /\ LastHandled(t)
        /\ tasks[t].kind = "CompletionAPIBackgroundTask"
        /\ tasks[t].handler = "on_success"
        /\ u_progress = t
        /\ t \in u_dialogs

(***************************************************************************)
(* The progress dialogs of overlapping operations (SpecUi)                 *)
(***************************************************************************)

\* every operation started so far has delivered its outcome
AllDelivered == \A t \in Tasks : tasks[t].handled > 0

\* C22: for any sequence of scan, refresh_models and generate, also when one
\* is started while an earlier one is outstanding, at most one progress
\* dialog is open at any time, and no progress dialog is open once every
\* outstanding operation has delivered its outcome.
C22_AtMostOneProgressDialog ==
    /\ Cardinality(u_dialogs) <= 1
    /\ AllDelivered => u_dialogs = {}

\* two scans were started one after the other, both delivered their result,
\* and the dialog of the first scan is still open although _progress is None
C22_Witness ==
    /\ Len(tasks) = 2
    /\ \A t \in Tasks : tasks[t].kind = "FileProviderThread"
    /\ AllDelivered
    /\ u_progress = 0
    /\ u_dialogs = {1}

(***************************************************************************)
(* The file list after overlapping scans (SpecUi)                          *)
(***************************************************************************)

\* the scans started so far
Scans == {t \in Tasks : tasks[t].kind = "FileProviderThread"}

\* the scan started most recently
LastScan == CHOOSE t \in Scans : \A s \in Scans : s <= t

\* every scan has delivered and the most recent one delivered a result
ScansDelivered ==
    /\ Cardinality(Scans) >= 2
    /\ \A t \in Scans : tasks[t].handled > 0
    /\ tasks[LastScan].delivered.kind # "error"

\* C23: when several scans were started, after all of them have delivered
\* the file list and the displayed total token count are exactly the records
\* and the total of the scan started most recently; the results of an
\* earlier scan are shown neither together with nor instead of them.
C23_ListShowsMostRecentScan ==
    ScansDelivered =>
        /\ u_filelist = tasks[LastScan].delivered.result
        /\ u_total_tokens = tasks[LastScan].delivered.total_tokens

\* two overlapping scans have delivered and the list holds the rows of both
C23_Witness ==
    /\ ScansDelivered
    /\ tasks[1].delivered.kind # "error"
    /\ tasks[1].delivered.result # <<>>
    /\ u_filelist =
           tasks[1].delivered.result \o tasks[LastScan].delivered.result

(***************************************************************************)
(* Properties of the stored configuration (SpecConfig)                     *)
(***************************************************************************)

\* C24: writing a configuration key changes only that key in the file:
\* after a Configuration set key k to v a read of k returns v, and every
\* other key of the file has the value that was persisted for it last,
\* whoever wrote it (this instance, another instance or an external edit).
C24_WriteChangesOnlyItsKey ==
    cfg_last.op = "__setattr__" =>
        /\ Load[cfg_last.key] = cfg_last.value
        /\ \A k \in ConfigKeys \ {cfg_last.key} :
              Load[k] = cfg_last.before[k]

\* an instance wrote one key and the other key of the file, which somebody
\* else had changed since the instance loaded it, went back to the old value
C24_Witness ==
    /\ cfg_last.op = "__setattr__"
    /\ Load[cfg_last.key] = cfg_last.value
    /\ \E k \in ConfigKeys \ {cfg_last.key} :
          /\ Load[k] # cfg_last.before[k]
          /\ Load[k] = cfg_config[cfg_last.inst][k]

=============================================================================
